---- MODULE Spec2Model ----
(***************************************************************************)
(* A model of the OpenID Connect relying-party client (BaseClient):        *)
(* decryptIdToken, validateIdToken and authorizationCallback, with the     *)
(* values they read represented as JavaScript values.                      *)
(*                                                                         *)
(* Typing of the inputs.  Header parameters and payload claims are drawn   *)
(* from the JSON types RFC 7519 / OpenID Connect Core give them (strings,  *)
(* numbers, arrays of strings, null, or absent), plus a wrongly typed      *)
(* value for the claims the code type-checks (iat, nbf, exp).  String      *)
(* parameters that are present are non-empty.                              *)
(***************************************************************************)
EXTENDS Integers, Sequences, FiniteSets, TLC

VARIABLES
  sc,      \* the inputs of a direct decryptIdToken / validateIdToken call
  vpc,     \* position of that call: "start", "decrypted", "done"
  dres,    \* outcome of decryptIdToken
  vres,    \* outcome of validateIdToken
  cb,      \* authorizationCallback: its arguments and its position
  cbTok,   \* authorizationCallback: the TokenSet travelling down the promise chain
  cbLog,   \* authorizationCallback: decryptions, validations and requests, in order
  cbOut,   \* authorizationCallback: the settlement of the returned promise
  cl,      \* the client: constructor arguments, issuer metadata, instance state
  op,      \* the operation of the client in progress: arguments, position, outcome
  net,     \* the HTTP requests the operation in progress has sent, in order
  env,     \* the clock and the identifiers uuid() has produced and assertions used
  dc,      \* fetchDistributedClaims: the userinfo object, the fetches, the outcome
  js,      \* joseSecret: the client secret, the cached key, the calls in flight
  ts,      \* a TokenSet: its values, the clock, the cached claims, what was read
  rg       \* register: its arguments, the issuer, the request, the outcome

opVars == <<cl, op, net, env, dc, js, ts, rg>>

vars == <<sc, vpc, dres, vres, cb, cbTok, cbLog, cbOut, cl, op, net, env, dc, js, ts, rg>>

(***************************************************************************)
(* Bounds of the model.                                                    *)
(***************************************************************************)
\* number of inputs of a validateIdToken call that differ from a valid call
MaxDev == 2
\* number of fields of a token met by authorizationCallback that differ from a valid one
MaxCbDev == 1

(***************************************************************************)
(* JavaScript values.                                                      *)
(***************************************************************************)
Undef == [t |-> "undefined", s |-> "", n |-> 0, a |-> <<>>]
Null == [t |-> "null", s |-> "", n |-> 0, a |-> <<>>]
Str(x) == [t |-> "string", s |-> x, n |-> 0, a |-> <<>>]
Num(x) == [t |-> "number", s |-> "", n |-> x, a |-> <<>>]
Arr(x) == [t |-> "array", s |-> "", n |-> 0, a |-> x]
Bool(x) == [t |-> "boolean", s |-> IF x THEN "true" ELSE "false", n |-> 0, a |-> <<>>]
True == Bool(TRUE)
False == Bool(FALSE)

\* ToBoolean: the test of an if (x) / !x
Truthy(x) ==
  CASE x.t \in {"undefined", "null"} -> FALSE
    [] x.t = "string" -> x.s # ""
    [] x.t = "number" -> x.n # 0
    [] x.t = "boolean" -> x.s = "true"
    [] OTHER -> TRUE

\* x == y, the comparison of assert.equal, on values of the types above
\* (null and undefined equal each other and nothing else)
LooseEq(x, y) ==
  IF x.t \in {"undefined", "null"} \/ y.t \in {"undefined", "null"}
  THEN x.t \in {"undefined", "null"} /\ y.t \in {"undefined", "null"}
  ELSE x = y

\* x === y
StrictEq(x, y) == x = y

\* a clock rounded down instead of up
FloorSeconds(ms) == ms \div 1000

\* Math.ceil(ms / 1000)
CeilSeconds(ms) == (ms + 999) \div 1000


(***************************************************************************)
(* The issuer and the client.                                              *)
(***************************************************************************)
IssuerId == "https://op.example.com"
ClientId == "client"
ClientSecret == "s3cret"
OtherId == "other"
TokenEndpoint == "https://op.example.com/token"
RevocationEndpoint == "https://op.example.com/revoke"
IntrospectionEndpoint == "https://op.example.com/introspect"
UserinfoEndpoint == "https://op.example.com/me"

\* instance(this): the client metadata the two pipelines read.
\* idAlg / uiAlg: id_token / userinfo _signed_response_alg;
\* idEnc / uiEnc: whether the _encrypted_response_alg and enc pair is configured
Client(idAlg, uiAlg, idEnc, uiEnc, method) ==
  [ client_id |-> Str(ClientId),
    client_secret |-> Str(ClientSecret),
    token_endpoint_auth_method |-> method,
    id_token_signed_response_alg |-> idAlg,
    userinfo_signed_response_alg |-> uiAlg,
    id_token_encrypted_response_alg |-> IF idEnc THEN Str("RSA-OAEP") ELSE Undef,
    id_token_encrypted_response_enc |-> IF idEnc THEN Str("A128CBC-HS256") ELSE Undef,
    userinfo_encrypted_response_alg |-> IF uiEnc THEN Str("RSA1_5") ELSE Undef,
    userinfo_encrypted_response_enc |-> IF uiEnc THEN Str("A128GCM") ELSE Undef ]

(***************************************************************************)
(* Compact tokens.  A token string is described by what the code can see   *)
(* of it: the number of dot-separated segments, whether the first two      *)
(* decode to JSON, the decoded header and payload, and what the JOSE and   *)
(* issuer collaborators answer for it (which key its signature verifies    *)
(* under, whether issuer.key finds a key, whether the keystore decrypts    *)
(* it).  A JWE has five segments, a JSON header and a second segment       *)
(* (the encrypted key) that is not JSON.                                   *)
(***************************************************************************)
Segments(str) == IF str.jwe THEN 5 ELSE str.nseg
HeaderIsJson(str) == IF str.jwe THEN TRUE ELSE str.hdrJson
PayloadIsJson(str) == IF str.jwe THEN FALSE ELSE Segments(str) >= 2 /\ str.payJson
Header(str) == IF str.jwe THEN str.jweHeader ELSE [alg |-> str.alg, enc |-> Undef]
\* result.payload.toString('utf8') of a successful decryption
Plaintext(str) == [str EXCEPT !.jwe = FALSE]

(***************************************************************************)
(* tokenHash(token, signingAlg): the first half of the digest the          *)
(* algorithm's size selects, base64url-encoded.                            *)
(***************************************************************************)
HashSize(alg) ==
  CASE alg \in {Str("HS256"), Str("RS256"), Str("ES256"), Str("PS256")} -> "256"
    [] alg \in {Str("HS384"), Str("RS384"), Str("ES384"), Str("PS384")} -> "384"
    [] alg \in {Str("HS512"), Str("RS512"), Str("ES512"), Str("PS512")} -> "512"
    [] OTHER -> "unsupported"

\* tokenHash throws: no digest for the algorithm, or nothing to hash
TokenHashThrows(value, alg) == HashSize(alg) = "unsupported" \/ value.t # "string"

TokenHash(value, alg) == Str("sha" \o HashSize(alg) \o "/2:" \o value.s)

(***************************************************************************)
(* Outcomes of a call: it resolves, it rejects (the promise it returned    *)
(* rejects) or it throws synchronously.  key is the verification key that  *)
(* was asked for, verified whether a signature check ran and succeeded.    *)
(***************************************************************************)
NoResult == [how |-> "pending", err |-> "", key |-> "none", verified |-> FALSE]
Resolved(key, verified) == [how |-> "resolved", err |-> "", key |-> key, verified |-> verified]
Thrown(e) == [how |-> "thrown", err |-> e, key |-> "none", verified |-> FALSE]
Rejected(e, key) == [how |-> "rejected", err |-> e, key |-> key, verified |-> FALSE]

\* ['iss', 'sub', 'aud', 'exp', 'iat'].forEach(verifyPresence): the first missing claim
RequiredClaims == <<"iss", "sub", "aud", "exp", "iat">>
FirstMissing(p) ==
  LET missing == {i \in 1..Len(RequiredClaims) : p[RequiredClaims[i]] = Undef}
  IN IF missing = {} THEN "" ELSE RequiredClaims[CHOOSE i \in missing : \A j \in missing : i <= j]

\* payloadObject.aud after the normalisation of a scalar to a one-element list
AudList(p) == IF p.aud.t = "array" THEN p.aud.a ELSE <<p.aud>>

\* payloadObject.aud.indexOf(client_id) !== -1
IndexOfFound(list, x) == \E i \in 1..Len(list) : StrictEq(list[i], x)

(***************************************************************************)
(* validateIdToken(token, nonce, use).                                     *)
(* token is a TokenSet (isSet) or a bare string; a TokenSet may lack its   *)
(* id_token (hasId).  Each check below yields "" when it passes and the    *)
(* message of the error it throws otherwise.                               *)
(***************************************************************************)
\* the expected algorithm taken from the id_token setting for every use
ExpectedAlgIgnoringUse(client, use) == client.id_token_signed_response_alg

ExpectedAlg(client, use) ==
  IF use = "userinfo" THEN client.userinfo_signed_response_alg
  ELSE client.id_token_signed_response_alg

\* token.access_token / token.code: undefined on a string
Field(token, name) == IF token.isSet THEN token[name] ELSE Undef

\* idToken.split('.'), JSON.parse(base64url.decode(...)) of parts[0] and parts[1]
ParseError(str) ==
  IF ~HeaderIsJson(str) \/ ~PayloadIsJson(str) THEN "SyntaxError" ELSE ""

AlgError(client, use, header) ==
  IF LooseEq(header.alg, ExpectedAlg(client, use)) THEN "" ELSE "unexpected algorithm used"

PresenceError(p) ==
  IF FirstMissing(p) = "" THEN "" ELSE "missing required JWT property " \o FirstMissing(p)

IssError(p) ==
  IF LooseEq(Str(IssuerId), p.iss) THEN "" ELSE "unexpected iss value"

IatError(p, now) ==
  IF p.iat.t # "number" THEN "iat is not a number"
  ELSE IF ~(p.iat.n <= now) THEN "id_token issued in the future"
  ELSE ""

NbfError(p, now) ==
  IF p.nbf = Undef THEN ""
  ELSE IF p.nbf.t # "number" THEN "nbf is not a number"
  ELSE IF ~(p.nbf.n <= now) THEN "id_token not active yet"
  ELSE ""

\* a nonce check made only when the caller passes a nonce
NonceConditionCallerOnly(p, nonce) == nonce # Undef /\ nonce # Null

\* payloadObject.nonce || (nonce !== undefined || nonce !== null)
NonceCondition(p, nonce) == Truthy(p.nonce) \/ (nonce # Undef \/ nonce # Null)

NonceError(p, nonce) ==
  IF NonceCondition(p, nonce) /\ ~LooseEq(p.nonce, nonce) THEN "nonce mismatch" ELSE ""

ExpError(p, now) ==
  IF p.exp.t # "number" THEN "exp is not a number"
  ELSE IF ~(now < p.exp.n) THEN "id_token expired"
  ELSE ""

AzpError(client, p) ==
  IF p.azp # Undef /\ ~LooseEq(client.client_id, p.azp)
  THEN "azp must be the client_id" ELSE ""

\* an audience check without the azp rule for several audiences
AudErrorNoAzpRule(client, p) ==
  IF ~IndexOfFound(AudList(p), client.client_id) THEN "aud is missing the client_id" ELSE ""

AudError(client, p) ==
  IF p.aud.t = "array" /\ Len(p.aud.a) > 1 /\ ~Truthy(p.azp)
  THEN "missing required JWT property azp"
  ELSE IF ~IndexOfFound(AudList(p), client.client_id) THEN "aud is missing the client_id"
  ELSE ""

\* a hash check skipped when the TokenSet lacks the hashed value
HashErrorWhenValue(claim, value, alg, name) ==
  IF ~Truthy(claim) \/ ~Truthy(value) THEN ""
  ELSE IF TokenHashThrows(value, alg) THEN "TypeError"
  ELSE IF ~LooseEq(claim, TokenHash(value, alg)) THEN name \o " mismatch"
  ELSE ""

HashError(claim, value, alg, name) ==
  IF ~Truthy(claim) THEN ""
  ELSE IF TokenHashThrows(value, alg) THEN "TypeError"
  ELSE IF ~LooseEq(claim, TokenHash(value, alg)) THEN name \o " mismatch"
  ELSE ""

AtHashError(token, p, alg) == HashError(p.at_hash, Field(token, "access_token"), alg, "at_hash")

CHashError(token, p, alg) == HashError(p.c_hash, Field(token, "code"), alg, "c_hash")

\* headerObject.alg.startsWith('HS') ? this.joseSecret() : this.issuer.key(headerObject)
KeyFor(alg) == IF alg.s \in {"HS256", "HS384", "HS512"} THEN "secret" ELSE "issuer"

\* a tail that resolves without waiting for the verification
VerifySignatureUnchecked(str, alg) ==
  IF alg = Str("none") THEN Resolved("none", FALSE)
  ELSE IF alg.t # "string" THEN Thrown("TypeError")
  ELSE Resolved(KeyFor(alg), TRUE)

\* the tail of validateIdToken: alg none, or key lookup and jose.JWS.createVerify(key).verify
VerifySignature(str, alg) ==
  IF alg = Str("none") THEN Resolved("none", FALSE)
  ELSE IF alg.t # "string" THEN Thrown("TypeError")
  ELSE IF KeyFor(alg) = "issuer" /\ ~str.keyFound THEN Rejected("no key", "issuer")
  ELSE IF Segments(str) # 3 \/ str.signedBy # KeyFor(alg)
       THEN Rejected("signature verification failed", KeyFor(alg))
  ELSE Resolved(KeyFor(alg), TRUE)

\* the claim checks with the expiry checked ahead of the issuer
ClaimErrorExpiryFirst(client, token, nonce, use, nowMs) ==
  LET str == token.str
      h == Header(str)
      p == str.payload
      now == CeilSeconds(nowMs)
      checks == << AlgError(client, use, h), PresenceError(p), ExpError(p, now), IssError(p),
                   IatError(p, now), NbfError(p, now), NonceError(p, nonce),
                   AzpError(client, p), AudError(client, p),
                   AtHashError(token, p, h.alg), CHashError(token, p, h.alg) >>
      failing == {i \in 1..Len(checks) : checks[i] # ""}
  IN IF failing = {} THEN ""
     ELSE checks[CHOOSE i \in failing : \A j \in failing : i <= j]

\* the first error of the claim checks, in the order the code makes them
ClaimError(client, token, nonce, use, nowMs) ==
  LET str == token.str
      h == Header(str)
      p == str.payload
      now == CeilSeconds(nowMs)
      checks == << AlgError(client, use, h), PresenceError(p), IssError(p), IatError(p, now),
                   NbfError(p, now), NonceError(p, nonce), ExpError(p, now),
                   AzpError(client, p), AudError(client, p),
                   AtHashError(token, p, h.alg), CHashError(token, p, h.alg) >>
      failing == {i \in 1..Len(checks) : checks[i] # ""}
  IN IF failing = {} THEN ""
     ELSE checks[CHOOSE i \in failing : \A j \in failing : i <= j]

\* a validation that lets a TokenSet without id_token pass
ValidateIdTokenIfPresent(client, token, nonce, use, nowMs) ==
  IF token.isSet /\ ~token.hasId THEN Resolved("none", FALSE)
  ELSE IF ParseError(token.str) # "" THEN Thrown(ParseError(token.str))
  ELSE IF ClaimError(client, token, nonce, use, nowMs) # ""
       THEN Thrown(ClaimError(client, token, nonce, use, nowMs))
  ELSE VerifySignature(token.str, Header(token.str).alg)

ValidateIdToken(client, token, nonce, use, nowMs) ==
  IF token.isSet /\ ~token.hasId THEN Thrown("id_token not present in TokenSet")
  ELSE IF ParseError(token.str) # "" THEN Thrown(ParseError(token.str))
  ELSE IF ClaimError(client, token, nonce, use, nowMs) # ""
       THEN Thrown(ClaimError(client, token, nonce, use, nowMs))
  ELSE VerifySignature(token.str, Header(token.str).alg)

(***************************************************************************)
(* decryptIdToken(token, use).  The outcome tells whether                  *)
(* jose.JWE.createDecrypt(keystore).decrypt ran (attempted) and which      *)
(* token comes out.                                                        *)
(***************************************************************************)
ExpectedEncAlg(client, use) ==
  IF use = "userinfo" THEN client.userinfo_encrypted_response_alg
  ELSE client.id_token_encrypted_response_alg

ExpectedEncEnc(client, use) ==
  IF use = "userinfo" THEN client.userinfo_encrypted_response_enc
  ELSE client.id_token_encrypted_response_enc

\* an early return that looks at the id_token setting for every use
DecryptNotConfiguredIdOnly(client, use) == ~Truthy(client.id_token_encrypted_response_alg)

\* the early return: no encrypted response algorithm for the use
DecryptNotConfigured(client, use) ==
  \/ use = "userinfo" /\ ~Truthy(client.userinfo_encrypted_response_alg)
  \/ use = "id_token" /\ ~Truthy(client.id_token_encrypted_response_alg)

DecryptOutcome(how, err, attempted, token) ==
  [how |-> how, err |-> err, attempted |-> attempted, token |-> token]

DecryptIdToken(client, token, use) ==
  IF DecryptNotConfigured(client, use) THEN DecryptOutcome("returned", "", FALSE, token)
  ELSE IF token.isSet /\ ~token.hasId
       THEN DecryptOutcome("thrown", "id_token not present in TokenSet", FALSE, token)
  ELSE IF ~HeaderIsJson(token.str) THEN DecryptOutcome("thrown", "SyntaxError", FALSE, token)
  ELSE IF ~LooseEq(Header(token.str).alg, ExpectedEncAlg(client, use))
       THEN DecryptOutcome("thrown", "unexpected alg used", FALSE, token)
  ELSE IF ~LooseEq(Header(token.str).enc, ExpectedEncEnc(client, use))
       THEN DecryptOutcome("thrown", "unexpected enc used", FALSE, token)
  ELSE IF ~token.str.jwe \/ ~token.str.decryptable
       THEN DecryptOutcome("rejected", "decryption failed", TRUE, token)
  ELSE DecryptOutcome("resolved", "", TRUE, [token EXCEPT !.str = Plaintext(token.str)])

(***************************************************************************)
(* The calls that are checked.  A call is a function from the names of     *)
(* its inputs to their values.  BaseCall(use, alg, enc) is a call every    *)
(* check accepts, for a client whose signed response algorithm for the     *)
(* use is alg and which has (enc) or has not configured encryption for     *)
(* the use; the other use is configured differently.  Calls are the calls  *)
(* that differ from a base call in at most MaxDev inputs.                  *)
(***************************************************************************)
Uses == {"id_token", "userinfo"}
Algs == {Str("RS256"), Str("HS256"), Str("none")}
OtherAlg(alg) == IF alg = Str("RS256") THEN Str("HS256") ELSE Str("RS256")
Signer(alg) == IF alg = Str("none") THEN "nobody" ELSE KeyFor(alg)

BaseCall(use, alg, enc) ==
  LET idAlg == IF use = "id_token" THEN alg ELSE OtherAlg(alg)
      uiAlg == IF use = "userinfo" THEN alg ELSE OtherAlg(alg)
      idEnc == IF use = "id_token" THEN enc ELSE ~enc
      uiEnc == IF use = "userinfo" THEN enc ELSE ~enc
      c == Client(idAlg, uiAlg, TRUE, TRUE, Str("client_secret_basic"))
  IN [ use |-> Str(use), idAlg |-> idAlg, uiAlg |-> uiAlg,
       idEnc |-> Bool(idEnc), uiEnc |-> Bool(uiEnc),
       jwe |-> Bool(enc),
       jwe_alg |-> ExpectedEncAlg(c, use), jwe_enc |-> ExpectedEncEnc(c, use),
       decryptable |-> True,
       nseg |-> Num(3), hdrJson |-> True, payJson |-> True,
       alg |-> alg, signedBy |-> Str(Signer(alg)), keyFound |-> True,
       iss |-> Str(IssuerId), sub |-> Str("user"), aud |-> Str(ClientId),
       exp |-> Num(4), iat |-> Num(2), nbf |-> Undef, nonce |-> Undef, azp |-> Undef,
       at_hash |-> Undef, c_hash |-> Undef,
       callerNonce |-> Undef, isSet |-> Bool(use = "id_token"), hasId |-> True,
       access_token |-> Str("at1"), code |-> Str("code1"),
       nowMs |-> Num(2000) ]

DimSeq ==
  << "jwe", "jwe_alg", "jwe_enc", "decryptable", "nseg", "hdrJson", "payJson", "alg",
     "signedBy", "keyFound", "iss", "sub", "aud", "exp", "iat", "nbf", "nonce", "azp",
     "at_hash", "c_hash", "callerNonce", "isSet", "hasId", "access_token", "code", "nowMs" >>

\* the values an input takes besides its value in the base call b
Alternatives(b, d) ==
  CASE d \in {"jwe", "decryptable", "hdrJson", "payJson", "keyFound", "isSet", "hasId"} ->
         {True, False} \ {b[d]}
    [] d = "jwe_alg" -> {Str("RSA-OAEP"), Str("RSA1_5")} \ {b[d]}
    [] d = "jwe_enc" -> {Str("A128CBC-HS256"), Str("A128GCM")} \ {b[d]}
    [] d = "nseg" -> {Num(2), Num(4)}
    [] d = "alg" -> Algs \ {b[d]}
    [] d = "signedBy" -> {Str("secret"), Str("issuer"), Str("nobody")} \ {b[d]}
    [] d = "iss" -> {Str("https://evil.example.com"), Undef}
    [] d = "sub" -> {Undef}
    [] d = "aud" -> {Str(OtherId), Arr(<<Str(ClientId), Str(OtherId)>>), Arr(<<Str(OtherId)>>), Undef}
    [] d = "exp" -> {Num(3), Num(2), Str("4"), Undef}
    [] d = "iat" -> {Num(3), Str("2"), Undef}
    [] d = "nbf" -> {Num(2), Num(3), Str("2"), Null}
    [] d = "nonce" -> {Str("n1"), Str("n2"), Null}
    [] d = "azp" -> {Str(ClientId), Str(OtherId)}
    [] d = "at_hash" -> {TokenHash(Str("at1"), Str("RS256")), TokenHash(Str("at2"), Str("RS256"))}
    [] d = "c_hash" -> {TokenHash(Str("code1"), Str("RS256")), TokenHash(Str("code2"), Str("RS256"))}
    [] d = "callerNonce" -> {Null, Str("n1")}
    [] d \in {"access_token", "code"} -> {Undef}
    [] d = "nowMs" -> {Num(2001)}

\* the strictly increasing sequences of at most k indices of dims, from index lo on
RECURSIVE IndexSeqs(_, _, _)
IndexSeqs(dims, lo, k) ==
  IF k = 0 THEN {<<>>}
  ELSE {<<>>} \cup UNION { { <<i>> \o q : q \in IndexSeqs(dims, i + 1, k - 1) } : i \in lo..Len(dims) }

\* the calls that differ from s exactly in the inputs dims[idx[j]], dims[idx[j+1]], ...
RECURSIVE Deviations(_, _, _, _, _)
Deviations(b, s, dims, idx, j) ==
  IF j > Len(idx) THEN {s}
  ELSE UNION { Deviations(b, [s EXCEPT ![dims[idx[j]]] = v], dims, idx, j + 1) :
               v \in Alternatives(b, dims[idx[j]]) }

BaseCalls == { BaseCall(u, a, e) : u \in Uses, a \in Algs, e \in BOOLEAN }

\* s is a call: a base call changed in at most MaxDev inputs
IsCall(s) ==
  \E b \in BaseCalls : \E idx \in IndexSeqs(DimSeq, 1, MaxDev) :
    s \in Deviations(b, b, DimSeq, idx, 1)

\* what a call passes to the two methods
ClientOf(s) ==
  Client(s.idAlg, s.uiAlg, s.idEnc = True, s.uiEnc = True, Str("client_secret_basic"))

StringOf(s) ==
  [ jwe |-> s.jwe = True, jweHeader |-> [alg |-> s.jwe_alg, enc |-> s.jwe_enc],
    decryptable |-> s.decryptable = True,
    nseg |-> s.nseg.n, hdrJson |-> s.hdrJson = True, payJson |-> s.payJson = True,
    alg |-> s.alg, signedBy |-> s.signedBy.s, keyFound |-> s.keyFound = True,
    payload |-> [ iss |-> s.iss, sub |-> s.sub, aud |-> s.aud, exp |-> s.exp, iat |-> s.iat,
                  nbf |-> s.nbf, nonce |-> s.nonce, azp |-> s.azp,
                  at_hash |-> s.at_hash, c_hash |-> s.c_hash ] ]

TokenOf(s) ==
  [ isSet |-> s.isSet = True, hasId |-> s.isSet = False \/ s.hasId = True, str |-> StringOf(s),
    access_token |-> s.access_token, code |-> s.code ]

NoDecrypt == DecryptOutcome("pending", "", FALSE, TokenOf(BaseCall("id_token", Str("RS256"), FALSE)))

(***************************************************************************)
(* authorizationCallback(redirectUri, parameters, checks).                 *)
(* cb holds the arguments (the picked CALLBACK_PROPERTIES of parameters,   *)
(* checks.state and checks.nonce), the client and the position in the      *)
(* promise chain; every then-callback is one step.                         *)
(***************************************************************************)
\* the synchronous checks with the state compared first
CallbackEarlyErrorStateFirst(error, state, checkState) ==
  IF ~StrictEq(checkState, state) THEN "state mismatch"
  ELSE IF Truthy(error) THEN "OpenIdConnectError: " \o error.s
  ELSE ""

\* the error of the synchronous checks: "" when the call goes on
CallbackEarlyError(error, state, checkState) ==
  IF Truthy(error) THEN "OpenIdConnectError: " \o error.s
  ELSE IF ~StrictEq(checkState, state) THEN "state mismatch"
  ELSE ""

\* a call that starts the code exchange without waiting for the direct id_token
CallbackFirstStepCodeFirst(hasIdToken, code) ==
  IF Truthy(code) THEN "grant_call"
  ELSE IF hasIdToken THEN "direct_decrypt"
  ELSE "nothing"

\* what the call does first: the direct id_token, else the code exchange, else nothing
CallbackFirstStep(hasIdToken, code) ==
  IF hasIdToken THEN "direct_decrypt"
  ELSE IF Truthy(code) THEN "grant_call"
  ELSE "nothing"

\* what follows the successful validation of a TokenSet from params or from the response
CallbackAfterValidate(src, code) ==
  IF src = "params" /\ Truthy(code) THEN "grant_call" ELSE "resolve"

(***************************************************************************)
(* grantAuth(): the client authentication of a request.  how tells whether *)
(* the call threw, returned the material or returned a promise of it (the  *)
(* _jwt methods); place is where the material goes.  The material is the   *)
(* headers.Authorization value and the body fields, undefined when absent. *)
(***************************************************************************)
NoAssertion ==
  [ minted |-> FALSE, alg |-> Undef, key |-> 0, iat |-> 0, exp |-> 0, jti |-> 0,
    iss |-> Undef, sub |-> Undef, aud |-> Undef ]

NoAuth ==
  [ how |-> "returned", place |-> "none", err |-> "",
    Authorization |-> Undef, client_id |-> Undef, client_secret |-> Undef,
    client_assertion |-> NoAssertion, client_assertion_type |-> Undef ]

\* new Buffer(s).toString('base64')
Base64(s) == "base64(" \o s \o ")"

\* the header value without the encoding
BasicCredentialsPlain(client) ==
  Str("Basic " \o client.client_id.s \o ":" \o client.client_secret.s)

\* `Basic ${value}` of the default branch
BasicCredentials(client) ==
  Str("Basic " \o Base64(client.client_id.s \o ":" \o client.client_secret.s))

AssertionType == "urn:ietf:params:oauth:client-assertion-type:jwt-bearer"

\* a grantAuth that sends 'none' to the default branch
GrantAuthNoneAsDefault(client) ==
  CASE client.token_endpoint_auth_method = Str("client_secret_post") ->
         [NoAuth EXCEPT !.place = "body", !.client_id = client.client_id,
                        !.client_secret = client.client_secret]
    [] client.token_endpoint_auth_method \in {Str("private_key_jwt"), Str("client_secret_jwt")} ->
         [NoAuth EXCEPT !.how = "promise", !.place = "body"]
    [] OTHER -> [NoAuth EXCEPT !.place = "header", !.Authorization = BasicCredentials(client)]

\* grantAuth(): what the switch on token_endpoint_auth_method does synchronously
GrantAuth(client) ==
  CASE client.token_endpoint_auth_method = Str("none") ->
         [NoAuth EXCEPT !.how = "thrown", !.err = "client not supposed to use grant authz"]
    [] client.token_endpoint_auth_method = Str("client_secret_post") ->
         [NoAuth EXCEPT !.place = "body", !.client_id = client.client_id,
                        !.client_secret = client.client_secret]
    [] client.token_endpoint_auth_method \in {Str("private_key_jwt"), Str("client_secret_jwt")} ->
         [NoAuth EXCEPT !.how = "promise", !.place = "body"]
    [] OTHER -> [NoAuth EXCEPT !.place = "header", !.Authorization = BasicCredentials(client)]

\* new TokenSet(values) of the callback parameters or of a token response
TokenSet(hasId, str, access_token, code) ==
  [isSet |-> TRUE, hasId |-> hasId, str |-> str, access_token |-> access_token, code |-> code]

(***************************************************************************)
(* The client object, the issuer its class is bound to, and the operations *)
(* grant, refresh, revoke, introspect and userinfo.                        *)
(* cl holds the constructor's arguments (the auth method and signing alg   *)
(* of the metadata, the algorithms the keys of the keystore sign with),    *)
(* the issuer's metadata, what jose.JWK.asKey answers for the client       *)
(* secret (secretAlgs: the algorithms of the derived key) and the state    *)
(* of the instance.  A key is the list of its key.algorithms('sign');      *)
(* hasKeystore tells whether a keystore was passed to the constructor.     *)
(***************************************************************************)
\* number of client assertions minted for one client
MaxAssertions == 2

\* what Date.now() can read, in milliseconds
ClockValues == {2999, 3000}

\* CLIENT_DEFAULTS.token_endpoint_auth_method
DefaultAuthMethod == Str("client_secret_basic")

\* _.defaults(_.pick(metadata, CLIENT_METADATA), CLIENT_DEFAULTS), for the auth method
WithDefault(method) == IF method = Undef THEN DefaultAuthMethod ELSE method

\* this.token_endpoint_auth_method.endsWith('_jwt')
EndsWithJwt(method) == method \in {Str("client_secret_jwt"), Str("private_key_jwt")}

\* a constructor that leaves the check to the first use
ConstructorErrorDeferred(method, supported) == ""

\* the assertion of the constructor: "" when the client is constructed
ConstructorError(method, supported) ==
  IF EndsWithJwt(method) /\ ~Truthy(supported)
  THEN "token_endpoint_auth_signing_alg_values_supported must be provided on the issuer"
  ELSE ""

\* the endpoints of the issuer: all under their names, under the token_ names, or
\* without revocation or introspection endpoint
IssuerKinds == {"complete", "legacy", "no_revocation", "no_introspection"}

Issuer(kind) ==
  [ revocation_endpoint |->
      IF kind \in {"complete", "no_introspection"} THEN Str(RevocationEndpoint) ELSE Undef,
    token_revocation_endpoint |-> IF kind = "legacy" THEN Str(RevocationEndpoint) ELSE Undef,
    introspection_endpoint |->
      IF kind \in {"complete", "no_revocation"} THEN Str(IntrospectionEndpoint) ELSE Undef,
    token_introspection_endpoint |-> IF kind = "legacy" THEN Str(IntrospectionEndpoint) ELSE Undef ]

\* a || b
Or(a, b) == IF Truthy(a) THEN a ELSE b

ClientArgs(method, signing_alg, supported, secretAlgs, keystore, kind, uiAlg, enc, app) ==
  [ made |-> "no", err |-> "", app |-> app, given |-> method, method |-> Undef,
    signing_alg |-> signing_alg, supported |-> supported,
    secretAlgs |-> secretAlgs, hasKeystore |-> TRUE, keystore |-> keystore,
    issuer |-> Issuer(kind),
    uiAlg |-> uiAlg, enc |-> enc, jose_secret |-> FALSE ]

HmacKey == << Str("HS256"), Str("HS384"), Str("HS512") >>
ShortHmacKey == << Str("HS256") >>
RsaKey == << Str("RS256"), Str("PS256") >>
EcKey == << Str("ES256") >>

SupportedLists ==
  { Undef, Arr(<<>>), Arr(<<Str("RS256"), Str("HS256")>>), Arr(<<Str("HS512"), Str("HS256")>>),
    Arr(<<Str("ES256"), Str("RS256")>>) }

\* the operations of an application that talks to authenticated endpoints, and of one
\* that reads the userinfo endpoint
AuthenticatedApp == {"grant", "refresh", "revoke", "introspect"}
UserinfoApp == {"userinfo", "refresh"}

\* the clients the operations are called on, each with the operations (app) its
\* application calls: the authentication settings vary for an issuer with every
\* endpoint, the issuer's endpoints vary for a few authentication methods, and the
\* userinfo and encryption settings vary for the default method
ClientConfigs ==
  { ClientArgs(m, Undef, s, HmacKey, <<>>, "complete", Undef, FALSE, AuthenticatedApp) :
      m \in {Undef, Str("client_secret_basic"), Str("client_secret_post"), Str("none")},
      s \in {Undef, Arr(<<Str("RS256"), Str("HS256")>>)} }
  \cup
  { ClientArgs(Str("client_secret_jwt"), a, s, k, <<>>, "complete", Undef, FALSE,
               AuthenticatedApp) :
      a \in {Undef, Str("HS256"), Str("HS512")}, s \in SupportedLists,
      k \in {HmacKey, ShortHmacKey} }
  \cup
  { ClientArgs(Str("private_key_jwt"), a, s, HmacKey, k, "complete", Undef, FALSE,
               AuthenticatedApp) :
      a \in {Undef, Str("RS256"), Str("ES256")}, s \in SupportedLists,
      k \in { <<>>, <<RsaKey>>, <<EcKey, RsaKey>> } }
  \cup
  { [ ClientArgs(Str("private_key_jwt"), a, Arr(<<Str("RS256"), Str("HS256")>>), HmacKey, <<>>,
                 "complete", Undef, FALSE, AuthenticatedApp) EXCEPT !.hasKeystore = FALSE ] :
      a \in {Undef, Str("RS256")} }
  \cup
  { ClientArgs(m, Undef, Arr(<<Str("RS256"), Str("HS256")>>), HmacKey, <<RsaKey>>, i, Undef,
               FALSE, AuthenticatedApp) :
      m \in {Str("client_secret_basic"), Str("none"), Str("client_secret_jwt")},
      i \in IssuerKinds }
  \cup
  { ClientArgs(Str("client_secret_basic"), Undef, Undef, HmacKey, <<>>, "complete", a, e,
               UserinfoApp) :
      a \in {Undef, Str("RS256"), Str("none")}, e \in BOOLEAN }

ClIdle == ClientArgs(Undef, Undef, Undef, HmacKey, <<>>, "complete", Undef, FALSE, {})

\* the metadata of the constructed client that the pipelines and grantAuth read
OpClient == Client(Str("RS256"), cl.uiAlg, cl.enc, cl.enc, cl.method)

(***************************************************************************)
(* createSign(): the choice of the algorithm and of the key.               *)
(***************************************************************************)
\* key.algorithms('sign')
KeyAlgorithms(key) == { key[i] : i \in 1..Len(key) }

\* _.uniq(_.flatten(_.map(this.keystore.all(), key => key.algorithms('sign'))))
KeystoreAlgs(keystore) == UNION { KeyAlgorithms(keystore[i]) : i \in 1..Len(keystore) }

\* _.find(supported, signAlg => algs.indexOf(signAlg) !== -1): the first such entry
FirstSupported(supported, algs) ==
  LET hits == { i \in 1..Len(supported.a) : supported.a[i] \in algs }
  IN IF hits = {} THEN Undef ELSE supported.a[CHOOSE i \in hits : \A j \in hits : i <= j]

\* alg after "if (!alg) alg = _.find(...)"
SigningAlg(configured, supported, algs) ==
  IF Truthy(configured) THEN configured ELSE FirstSupported(supported, algs)

\* this.keystore.get({ alg }): the index of the key it returns, 0 for none.  With an
\* alg it is the first key that supports it; without one (alg undefined) the answer
\* is the key store's: no key, or a key of the store
KeystoreGet(keystore, alg) ==
  IF Truthy(alg)
  THEN LET hits == { i \in 1..Len(keystore) : alg \in KeyAlgorithms(keystore[i]) }
       IN IF hits = {} THEN {0} ELSE {CHOOSE i \in hits : \A j \in hits : i <= j}
  ELSE IF Len(keystore) = 0 THEN {0} ELSE {0, 1}

\* sign.update(...).final(): signing under an algorithm of the key succeeds; for
\* another algorithm, or none, the outcome is the JOSE library's
SignOutcomes(alg, key) ==
  IF Truthy(alg) /\ alg \in KeyAlgorithms(key) THEN {TRUE} ELSE BOOLEAN

\* Math.floor(Date.now() / 1000)
EpochSeconds(ms) == ms \div 1000

\* uuid(): an identifier that was not produced before
Uuid(produced) == produced + 1

\* a payload whose jti is derived from the time of the call
AssertionPayloadTimeId(client, now, id) ==
  [ NoAssertion EXCEPT !.minted = TRUE, !.iat = now, !.exp = now + 60, !.jti = now,
                       !.iss = client.client_id, !.sub = client.client_id,
                       !.aud = Str(TokenEndpoint) ]

\* the payload that is signed
AssertionPayload(client, now, id) ==
  [ NoAssertion EXCEPT !.minted = TRUE, !.iat = now, !.exp = now + 60, !.jti = id,
                       !.iss = client.client_id, !.sub = client.client_id,
                       !.aud = Str(TokenEndpoint) ]

\* { body: { client_assertion, client_assertion_type } }
AssertionAuth(assertion) ==
  [ NoAuth EXCEPT !.place = "body", !.client_assertion = assertion,
                  !.client_assertion_type = Str(AssertionType) ]

(***************************************************************************)
(* HTTP requests: the verb, the endpoint, and what the options carry in    *)
(* the headers, the query and the body.  caller is the body the caller of  *)
(* authenticatedPost passed.                                               *)
(***************************************************************************)
NoRequest ==
  [ verb |-> "", endpoint |-> "", Authorization |-> Undef,
    query_access_token |-> Undef, body_access_token |-> Undef,
    client_id |-> Undef, client_secret |-> Undef,
    client_assertion |-> NoAssertion, client_assertion_type |-> Undef, caller |-> "" ]

\* got.post(endpoint, this.issuer.httpOptions(_.merge(httpOptions, auth)))
AuthenticatedRequest(endpoint, caller, auth) ==
  [ NoRequest EXCEPT !.verb = "post", !.endpoint = endpoint, !.caller = caller,
                     !.Authorization = auth.Authorization,
                     !.client_id = auth.client_id, !.client_secret = auth.client_secret,
                     !.client_assertion = auth.client_assertion,
                     !.client_assertion_type = auth.client_assertion_type ]

\* String(x)
JsString(x) ==
  CASE x.t = "undefined" -> "undefined" [] x.t = "null" -> "null" [] OTHER -> x.s

\* String(opts.verb).toLowerCase(), on the verbs of the model
ToLowerCase(s) ==
  CASE s = "GET" -> "get" [] s = "POST" -> "post" [] s = "PUT" -> "put" [] OTHER -> s

\* _.merge({ verb: 'get', via: 'header' }, options), for one option
OptionOr(default, given) == IF given = Undef THEN default ELSE given

\* a switch on via without the assertions
UserinfoOptionsErrorUnchecked(via, verb) == ""

\* the assertions of the switch on opts.via: "" when the request is built
UserinfoOptionsError(via, verb) ==
  IF via = Str("query") /\ verb # "get"
  THEN "providers should only parse query strings for GET requests"
  ELSE IF via = Str("body") /\ verb # "post" THEN "can only send body on POST"
  ELSE ""

\* bearer(token)
Bearer(token) == Str("Bearer " \o JsString(token))

\* got[verb](this.issuer.userinfo_endpoint, this.issuer.httpOptions(httpOptions))
UserinfoRequest(via, verb, token) ==
  CASE via = Str("query") ->
         [NoRequest EXCEPT !.verb = verb, !.endpoint = UserinfoEndpoint,
                           !.query_access_token = token]
    [] via = Str("body") ->
         [NoRequest EXCEPT !.verb = verb, !.endpoint = UserinfoEndpoint,
                           !.body_access_token = token]
    [] OTHER ->
         [NoRequest EXCEPT !.verb = verb, !.endpoint = UserinfoEndpoint,
                           !.Authorization = Bearer(token)]

\* the userinfo response is validated only when an algorithm and encryption are configured
UserinfoParsesDirectlyUnlessEncrypted(client) ==
  ~Truthy(client.userinfo_signed_response_alg) \/ ~Truthy(client.userinfo_encrypted_response_alg)

\* if (!this.userinfo_signed_response_alg) return JSON.parse(jwt)
UserinfoParsesDirectly(client) == ~Truthy(client.userinfo_signed_response_alg)

\* the id_token strings of a token response and the JWT bodies of a userinfo response:
\* the valid string for the use and the strings that differ from it in one respect
ResponseStrings(use, alg, enc, dims) ==
  LET b == BaseCall(use, alg, enc)
  IN { StringOf(s) : s \in UNION { Deviations(b, b, dims, idx, 1) : idx \in IndexSeqs(dims, 1, 1) } }

\* a response body that is a JSON document, as it is or encrypted in a JWE
JsonText(enc, jwe) ==
  [ StringOf(BaseCall("userinfo", Str("RS256"), enc)) EXCEPT
      !.jwe = jwe, !.nseg = 1, !.hdrJson = FALSE, !.payJson = FALSE ]

BareString(str) == [NoDecrypt.token EXCEPT !.isSet = FALSE, !.hasId = TRUE, !.str = str]

OpIdle ==
  [ name |-> "none", pc |-> "idle", isSet |-> FALSE, token |-> Undef,
    via |-> Undef, verb |-> "", endpoint |-> "", caller |-> "",
    calledMs |-> 0, alg |-> Undef, key |-> 0, auth |-> NoAuth,
    authCalls |-> 0, tok |-> NoDecrypt.token, bodyJson |-> FALSE, decrypted |-> FALSE,
    checked |-> FALSE, validated |-> FALSE, result |-> "", out |-> NoResult ]

EnvIdle == [clock |-> 2999, uuids |-> 0, used |-> {}]

(***************************************************************************)
(* fetchDistributedClaims(userinfo).  dc.u is the userinfo object: whether *)
(* it has _claim_names and _claim_sources, the source each claim name      *)
(* points at (0: the claim is not in _claim_names), the kind of each       *)
(* source definition ("absent" when _claim_sources has no such entry) and  *)
(* the top-level value of each claim (0: as it was, s: the value the       *)
(* response of source s carried).  Sources are numbered; a response        *)
(* carries a set of claims.                                                *)
(***************************************************************************)
\* number of entries _claim_sources can have
MaxSources == 2

Sources == 1..MaxSources

\* the claim names, in the order of the keys of _claim_names
ClaimSeq == << "address", "credit_score" >>
Claims == { ClaimSeq[i] : i \in 1..Len(ClaimSeq) }

\* a definition with an endpoint, with an endpoint and an access token, or an
\* aggregated one (a JWT and no endpoint)
SourceKinds == {"absent", "endpoint", "endpoint+token", "aggregated"}

\* _.pickBy(userinfo._claim_sources, def => !!def.endpoint)
DistributedSources(u) ==
  IF u.hasSources THEN { s \in Sources : u.kinds[s] \in {"endpoint", "endpoint+token"} } ELSE {}

\* the request for a source: the bearer header only when the definition has a token
ClaimRequest(u, s) == [src |-> s, bearer |-> u.kinds[s] = "endpoint+token"]

\* the claims _claim_names maps to the source, in the order forEach visits them
ClaimsOf(u, s) ==
  IF u.hasNames THEN { i \in 1..Len(ClaimSeq) : u.names[ClaimSeq[i]] = s } ELSE {}

\* the first claim of the source that the response lacks: 0 when it has them all
FirstLacking(u, s, data) ==
  LET lacking == { i \in ClaimsOf(u, s) : ClaimSeq[i] \notin data }
  IN IF lacking = {} THEN 0 ELSE CHOOSE i \in lacking : \A j \in lacking : i <= j

\* a response handler that copies the claims and keeps their _claim_names entries
AfterResponseKeepingNames(u, s, data) ==
  LET stop == FirstLacking(u, s, data)
      done == { ClaimSeq[i] : i \in { j \in ClaimsOf(u, s) : stop = 0 \/ j < stop } }
  IN [ u EXCEPT !.kinds[s] = "absent",
                !.vals = [c \in Claims |-> IF c \in done THEN s ELSE u.vals[c]] ]

\* the response handler: the source is deleted, then every claim that points at it is
\* copied and its name deleted, until a claim is found lacking
AfterResponse(u, s, data) ==
  LET stop == FirstLacking(u, s, data)
      done == { ClaimSeq[i] : i \in { j \in ClaimsOf(u, s) : stop = 0 \/ j < stop } }
  IN [ u EXCEPT !.kinds[s] = "absent",
                !.vals = [c \in Claims |-> IF c \in done THEN s ELSE u.vals[c]],
                !.names = [c \in Claims |-> IF c \in done THEN 0 ELSE u.names[c]] ]

\* if (_.isEmpty(userinfo._claim_names)) delete ...; the same for _claim_sources
Cleanup(u) ==
  [ u EXCEPT !.hasNames = u.hasNames /\ \E c \in Claims : u.names[c] # 0,
             !.hasSources = u.hasSources /\ \E s \in Sources : u.kinds[s] # "absent" ]

Pending == [how |-> "pending", src |-> 0, err |-> ""]

Userinfos ==
  { [hasNames |-> hn, hasSources |-> hs, names |-> n, kinds |-> k, vals |-> [c \in Claims |-> 0]] :
      hn \in BOOLEAN, hs \in BOOLEAN,
      n \in [Claims -> 0..MaxSources], k \in [Sources -> SourceKinds] }

\* an object without _claim_names or without _claim_sources has no entries there
WellFormed(u) ==
  /\ ~u.hasNames => \A c \in Claims : u.names[c] = 0
  /\ ~u.hasSources => \A s \in Sources : u.kinds[s] = "absent"

DcIdle ==
  LET u == [ hasNames |-> FALSE, hasSources |-> FALSE, names |-> [c \in Claims |-> 0],
             kinds |-> [s \in Sources |-> "absent"], vals |-> [c \in Claims |-> 0] ]
  IN [ pc |-> "idle", given |-> u, u |-> u, reqs |-> {}, pending |-> {}, failed |-> {},
       order |-> <<>>, out |-> Pending ]

(***************************************************************************)
(* joseSecret(): the key derived from the client secret and its cache,     *)
(* instance(this).jose_secret.  js holds the client secret, the cache, and *)
(* for every call its position: a call that finds the cache empty calls    *)
(* jose.JWK.asKey (derived) and stores the key in its then-callback.  A    *)
(* key is the JWK that asKey was given; after tells whether the cache was  *)
(* populated when the call was made.                                       *)
(***************************************************************************)
\* number of joseSecret calls on one client
MaxJsCalls == 4

JsCalls == 1..MaxJsCalls

\* base64url(new Buffer(this.client_secret))
Base64Url(s) == "base64url(" \o s \o ")"

NoKey == [kty |-> "", k |-> ""]

\* jose.JWK.asKey({ k: base64url(new Buffer(this.client_secret)), kty: 'oct' })
AsKey(secret) == [kty |-> "oct", k |-> Base64Url(secret.s)]

\* a call that never takes the cached key
CacheHitNever(cache) == FALSE

\* if (instance(this).jose_secret)
CacheHit(cache) == cache # NoKey

\* new Buffer(x) throws a TypeError for an undefined x
BufferThrows(x) == x.t # "string"

JsCallIdle == [pc |-> "idle", after |-> FALSE, derived |-> FALSE, out |-> NoKey]

JsSecrets == {Undef, Str(ClientSecret), Str("0ther")}

JsIdle == [secret |-> Str(ClientSecret), cache |-> NoKey,
           calls |-> [i \in JsCalls |-> JsCallIdle]]

(***************************************************************************)
(* TokenSet: the value object around a token response.  Its values are the *)
(* fields the constructor was given; expires_at is stored at construction; *)
(* the decoded claims are kept in a cache beside the values.  ts holds one *)
(* TokenSet, the clock in seconds, the number of times the ID Token was    *)
(* decoded and the log of what the application read from it.               *)
(***************************************************************************)
\* the largest expires_in of a response (and the smallest, negated)
MaxExpiresIn == 1

\* the last value of the clock, in seconds
MaxTime == 2

\* number of reads (expired(), expires_in, claims, serialization) of one TokenSet
MaxReads == 3

\* the JSON documents that are the payload of an ID Token
Payloads == {"{sub:1}", "{sub:2}"}

\* base64url.decode(segment)
Base64UrlDecode(x) == CHOOSE j \in Payloads : Base64Url(j) = x

\* the fields of a token response: expiry, and the payload segment of the id_token
Response(expires_in, expires_at, hasId, json) ==
  [expires_in |-> expires_in, expires_at |-> expires_at,
   id_token |-> IF hasId THEN Str(Base64Url(json)) ELSE Undef, claims |-> Undef]

Responses ==
  { Response(e[1], e[2], h, j) :
      e \in ({<<Undef, Undef>>}
             \cup { <<Num(n), Undef>> : n \in (0 - MaxExpiresIn)..MaxExpiresIn }
             \cup { <<Undef, Num(t)>> : t \in 0..MaxTime }),
      h \in BOOLEAN, j \in Payloads }

\* constructor: expires_at = now + expires_in, else the expires_at of the response
ExpiresAt(values, now) ==
  IF values.expires_in # Undef THEN Num(now + values.expires_in.n)
  ELSE values.expires_at

\* an expired() that answers what was true at construction
ExpiredWhenBuilt(t, now) == t.expires_at # Undef /\ t.builtAt >= t.expires_at.n

\* expired(): expires_at !== undefined && now >= expires_at
Expired(t, now) == t.expires_at # Undef /\ now >= t.expires_at.n

\* expires_in read back: max(expires_at - now, 0)
ExpiresIn(t, now) == IF t.expires_at.n - now > 0 THEN t.expires_at.n - now ELSE 0

\* the error of a claims access: "" when there is an id_token
ClaimsError(t) == IF ~Truthy(t.values.id_token) THEN "id_token not present in TokenSet" ELSE ""

\* a claims access that decodes every time
ClaimsCachedNever(t) == FALSE

\* the claims were decoded before
ClaimsCached(t) == t.cache # ""

\* the decoded payload segment of the id_token
DecodeClaims(t) == Base64UrlDecode(t.values.id_token.s)

\* serialization: the fields of the response
Serialize(t) == t.values

NoRead == [what |-> "", at |-> 0, bool |-> FALSE, num |-> 0, err |-> "", claims |-> "",
           dump |-> Response(Undef, Undef, FALSE, "{sub:1}")]

TsIdle == [made |-> FALSE, values |-> Response(Undef, Undef, FALSE, "{sub:1}"),
           builtAt |-> 0, expires_at |-> Undef, clock |-> 0,
           cache |-> "", decodes |-> 0, log |-> <<>>]

(***************************************************************************)
(* Client.register(body, keystore), a static method of the client class of *)
(* an issuer.  rg holds the arguments (given: the body as it was passed;   *)
(* body: the same object, which register may extend), the issuer's         *)
(* metadata, the request and the outcome.  A keystore argument is          *)
(* undefined, something that is no jose.JWK.KeyStore, or a key store with  *)
(* its keys; a key is its kty and whether it holds the private part.       *)
(***************************************************************************)
\* number of keys of a keystore passed to register
MaxKeys == 2

RegistrationEndpoint == "https://op.example.com/client/registration"

NoField == [t |-> "undefined", s |-> "", keys |-> <<>>]
StringField(x) == [t |-> "string", s |-> x, keys |-> <<>>]

RegKeys == { [kty |-> k, private |-> p] : k \in {"RSA", "EC"}, p \in BOOLEAN }
             \cup { [kty |-> "oct", private |-> TRUE] }

RegKeystores ==
  { [kind |-> "undefined", keys |-> <<>>], [kind |-> "other", keys |-> <<>>] }
  \cup { [kind |-> "keystore", keys |-> ks] :
           ks \in UNION { [1..n -> RegKeys] : n \in 0..MaxKeys } }

RegBodies ==
  { [jwks |-> j, jwks_uri |-> u] :
      j \in {NoField, StringField("whatever")},
      u \in {NoField, StringField("https://rp.example.com/certs")} }

\* jose.JWK.isKeyStore(keystore)
IsKeyStore(keystore) == keystore.kind = "keystore"

\* a test of the key type alone
KeyAcceptedByType(key) == key.kty \in {"RSA", "EC"}

\* kty RSA or EC and key.toPEM(true) does not throw: the key has its private part
KeyAccepted(key) == key.kty \in {"RSA", "EC"} /\ key.private

\* keystore.toJSON()
ToJSON(keystore) == [t |-> "object", s |-> "", keys |-> keystore.keys]

\* keystore !== undefined && !(body.jwks || body.jwks_uri)
KeystoreConsidered(body, keystore) ==
  keystore.kind # "undefined" /\ ~(body.jwks # NoField \/ body.jwks_uri # NoField)

\* the error register throws before it sends anything: "" when it goes on
RegisterError(endpoint, body, keystore) ==
  IF ~endpoint THEN "issuer does not support dynamic registration"
  ELSE IF ~KeystoreConsidered(body, keystore) THEN ""
  ELSE IF ~IsKeyStore(keystore) THEN "keystore must be an instance of jose.JWK.KeyStore"
  ELSE IF \E i \in 1..Len(keystore.keys) : ~KeyAccepted(keystore.keys[i])
       THEN "keystore must only contain private EC or RSA keys"
  ELSE ""

\* the body after the synchronous part: body.jwks = keystore.toJSON()
RegisterBody(body, keystore) ==
  IF KeystoreConsidered(body, keystore) THEN [body EXCEPT !.jwks = ToJSON(keystore)] ELSE body

\* JSON.stringify(body)
JsonStringify(body) == [json |-> body]

NoRegistration == [sent |-> FALSE, url |-> "", body |-> JsonStringify([jwks |-> NoField, jwks_uri |-> NoField]),
                   contentType |-> ""]

\* got.post(registration_endpoint, { body: JSON.stringify(body), headers: {...} })
RegistrationRequest(body) ==
  [sent |-> TRUE, url |-> RegistrationEndpoint, body |-> JsonStringify(body),
   contentType |-> "application/json"]

\* new this(JSON.parse(response.body), keystore): the error of the constructor
RegisteredClientError(keystore, method, supported) ==
  IF keystore.kind # "undefined" /\ ~IsKeyStore(keystore)
  THEN "keystore must be an instance of jose.JWK.KeyStore"
  ELSE ConstructorError(method, supported)

RgIdle == [pc |-> "idle", endpoint |-> TRUE, supported |-> Undef,
           given |-> [jwks |-> NoField, jwks_uri |-> NoField],
           body |-> [jwks |-> NoField, jwks_uri |-> NoField],
           keystore |-> [kind |-> "undefined", keys |-> <<>>],
           req |-> NoRegistration, out |-> NoResult]

Event(ev, src, ok, nonce) == [ev |-> ev, src |-> src, ok |-> ok, nonce |-> nonce]

CbIdle ==
  [ pc |-> "idle", src |-> "params", method |-> Str("client_secret_basic"), enc |-> FALSE,
    error |-> Undef, state |-> Undef, checkState |-> Undef, nonce |-> Undef,
    hasIdToken |-> FALSE, code |-> Undef, access_token |-> Undef ]

CbClient == Client(Str("RS256"), Str("HS256"), cb.enc, FALSE, cb.method)

CbNowMs == 2000

\* the inputs of a token that authorizationCallback lets vary
CbDimSeq == << "jwe", "nonce", "exp", "at_hash", "c_hash" >>

\* the id_token strings the callback meets, for a client with encryption configured or
\* not; a TokenSet without id_token has none
CbStrings(enc, hasId) ==
  LET b == BaseCall("id_token", Str("RS256"), enc)
  IN IF ~hasId THEN {StringOf(b)}
     ELSE { StringOf(s) : s \in UNION { Deviations(b, b, CbDimSeq, idx, 1) :
                                        idx \in IndexSeqs(CbDimSeq, 1, MaxCbDev) } }

CbSettle(out) ==
  /\ cbOut' = out
  /\ cb' = [cb EXCEPT !.pc = "settled"]

\* the synchronous part of authorizationCallback
CbCall ==
  /\ cb.pc = "called"
  /\ LET early == CallbackEarlyError(cb.error, cb.state, cb.checkState)
         first == CallbackFirstStep(cb.hasIdToken, cb.code)
     IN IF early # "" THEN CbSettle(Rejected(early, "none")) /\ UNCHANGED <<cbTok, cbLog>>
        ELSE IF first = "nothing"
             THEN CbSettle([NoResult EXCEPT !.how = "returned undefined"]) /\ UNCHANGED <<cbTok, cbLog>>
        ELSE IF first = "grant_call" /\ GrantAuth(CbClient).how = "thrown"
             THEN /\ CbSettle(Thrown("client not supposed to use grant authz"))
                  /\ cbLog' = Append(cbLog, Event("grantAuth", "response", FALSE, Undef))
                  /\ UNCHANGED cbTok
        ELSE IF first = "grant_call"
             THEN /\ cb' = [cb EXCEPT !.pc = "post"]
                  /\ cbLog' = Append(cbLog, Event("grantAuth", "response", TRUE, Undef))
                  /\ UNCHANGED <<cbTok, cbOut>>
        ELSE /\ cb' = [cb EXCEPT !.pc = "decrypt"]
             /\ UNCHANGED <<cbTok, cbLog, cbOut>>
  /\ UNCHANGED <<sc, vpc, dres, vres>>
  /\ UNCHANGED opVars

\* .then(tokenset => this.decryptIdToken(tokenset, 'id_token'))
CbDecrypt ==
  /\ cb.pc = "decrypt"
  /\ LET d == DecryptIdToken(CbClient, cbTok, "id_token")
     IN /\ cbLog' = Append(cbLog, Event("decrypt", cb.src, d.how \in {"returned", "resolved"}, Undef))
        /\ IF d.how \in {"returned", "resolved"}
           THEN cbTok' = d.token /\ cb' = [cb EXCEPT !.pc = "validate"] /\ UNCHANGED cbOut
           ELSE CbSettle(Rejected(d.err, "none")) /\ UNCHANGED cbTok
  /\ UNCHANGED <<sc, vpc, dres, vres>>
  /\ UNCHANGED opVars

\* .then(tokenset => this.validateIdToken(tokenset, toCheck.nonce, 'id_token'))
CbValidate ==
  /\ cb.pc = "validate"
  /\ LET v == ValidateIdToken(CbClient, cbTok, cb.nonce, "id_token", CbNowMs)
     IN /\ cbLog' = Append(cbLog, Event("validate", cb.src, v.how = "resolved", cb.nonce))
        /\ IF v.how # "resolved" THEN CbSettle(Rejected(v.err, v.key))
           ELSE IF CallbackAfterValidate(cb.src, cb.code) = "grant_call"
                THEN cb' = [cb EXCEPT !.pc = "grant_call"] /\ UNCHANGED cbOut
           ELSE CbSettle(v)
  /\ UNCHANGED <<sc, vpc, dres, vres, cbTok>>
  /\ UNCHANGED opVars

\* grantCall as a then-callback: this.grant(...) up to Promise.resolve(this.grantAuth())
CbGrantCall ==
  /\ cb.pc = "grant_call"
  /\ cbLog' = Append(cbLog, Event("grantAuth", "response", GrantAuth(CbClient).how = "returned", Undef))
  /\ IF GrantAuth(CbClient).how = "thrown"
     THEN CbSettle(Rejected("client not supposed to use grant authz", "none"))
     ELSE cb' = [cb EXCEPT !.pc = "post"] /\ UNCHANGED cbOut
  /\ UNCHANGED <<sc, vpc, dres, vres, cbTok>>
  /\ UNCHANGED opVars

\* .then(auth => got.post(endpoint, ...)): the token request leaves
CbPost ==
  /\ cb.pc = "post"
  /\ cbLog' = Append(cbLog, Event("post", "response", TRUE, Undef))
  /\ cb' = [cb EXCEPT !.pc = "response"]
  /\ UNCHANGED <<sc, vpc, dres, vres, cbTok, cbOut>>
  /\ UNCHANGED opVars

\* .then(success, gotErrorHandler): the token response, or the failure of the request
CbResponse ==
  /\ cb.pc = "response"
  /\ \/ /\ CbSettle(Rejected("token endpoint error", "none"))
        /\ UNCHANGED cbTok
     \/ \E hasId \in BOOLEAN, at \in {Undef, Str("at1")} : \E str \in CbStrings(cb.enc, hasId) :
          /\ cbTok' = TokenSet(hasId, str, at, Undef)
          /\ cb' = [cb EXCEPT !.pc = "decrypt", !.src = "response"]
          /\ UNCHANGED cbOut
  /\ UNCHANGED <<sc, vpc, dres, vres, cbLog>>
  /\ UNCHANGED opVars

InitCb ==
  /\ \E method \in {Str("client_secret_basic"), Str("client_secret_post"), Str("none")},
        enc \in BOOLEAN,
        error \in {Undef, Str("access_denied")},
        state \in {Undef, Str("s1"), Str("s2")},
        checkState \in {Undef, Str("s1")},
        nonce \in {Undef, Str("n1")},
        hasIdToken \in BOOLEAN,
        code \in {Undef, Str("code1")},
        access_token \in {Undef, Str("at1")} :
       /\ cb = [ pc |-> "called", src |-> "params", method |-> method, enc |-> enc,
                 error |-> error, state |-> state, checkState |-> checkState, nonce |-> nonce,
                 hasIdToken |-> hasIdToken, code |-> code, access_token |-> access_token ]
       /\ \E str \in CbStrings(enc, hasIdToken) :
            cbTok = TokenSet(hasIdToken, str, access_token, code)
  /\ cbLog = <<>>
  /\ cbOut = NoResult
  /\ sc = BaseCall("id_token", Str("RS256"), FALSE)
  /\ vpc = "idle" /\ dres = NoDecrypt /\ vres = NoResult
  /\ cl = ClIdle /\ op = OpIdle /\ net = <<>> /\ env = EnvIdle /\ dc = DcIdle
  /\ js = JsIdle /\ ts = TsIdle /\ rg = RgIdle

NextCb == CbCall \/ CbDecrypt \/ CbValidate \/ CbGrantCall \/ CbPost \/ CbResponse

SpecCb == InitCb /\ [][NextCb]_vars

(***************************************************************************)
(* Direct calls: decryptIdToken, then validateIdToken on what it returned, *)
(* or validateIdToken alone.                                               *)
(***************************************************************************)
\* the token validateIdToken is given: what decryptIdToken returned, when it ran first
Current == IF vpc \in {"decrypted", "validated"} THEN dres.token ELSE TokenOf(sc)

Decrypt ==
  /\ vpc = "start"
  /\ dres' = DecryptIdToken(ClientOf(sc), TokenOf(sc), sc.use.s)
  /\ vpc' = IF dres'.how \in {"returned", "resolved"} THEN "decrypted" ELSE "failed"
  /\ UNCHANGED <<sc, vres, cb, cbTok, cbLog, cbOut>>
  /\ UNCHANGED opVars

Validate ==
  /\ vpc \in {"start", "decrypted"}
  /\ vres' = ValidateIdToken(ClientOf(sc), Current, sc.callerNonce, sc.use.s, sc.nowMs.n)
  /\ vpc' = IF vpc = "start" THEN "done" ELSE "validated"
  /\ UNCHANGED <<sc, dres, cb, cbTok, cbLog, cbOut>>
  /\ UNCHANGED opVars

InitV ==
  /\ IsCall(sc)
  /\ vpc = "start"
  /\ dres = NoDecrypt
  /\ vres = NoResult
  /\ cb = CbIdle /\ cbTok = NoDecrypt.token /\ cbLog = <<>> /\ cbOut = NoResult
  /\ cl = ClIdle /\ op = OpIdle /\ net = <<>> /\ env = EnvIdle /\ dc = DcIdle
  /\ js = JsIdle /\ ts = TsIdle /\ rg = RgIdle

NextV == Decrypt \/ Validate

SpecV == InitV /\ [][NextV]_vars

(***************************************************************************)
(* The operations of a constructed client, called one after the other.     *)
(* The synchronous part of a call is one step and every then-callback of   *)
(* the promise chain it returns is one step.                               *)
(***************************************************************************)
OpSettle(o, out) == [o EXCEPT !.pc = "settled", !.out = out]

NewCall(name) == [OpIdle EXCEPT !.name = name]

\* the identifiers of the assertions minted by the calls before the one that starts
EnvAtCall ==
  [ env EXCEPT !.used = @ \cup (IF op.auth.client_assertion.minted
                                THEN {op.auth.client_assertion.jti} ELSE {}) ]

\* the application calls an operation on the constructed client when none is in
\* progress
CanCall(name) ==
  /\ cl.made = "yes" /\ name \in cl.app
  /\ op.pc \in {"idle", "settled"}
  /\ env.uuids < MaxAssertions

\* a refresh that takes whatever the TokenSet holds
RefreshTokenErrorUnchecked(isSet, token) == ""

\* if (token instanceof TokenSet) { if (!token.refresh_token) ... }
RefreshTokenError(isSet, token) ==
  IF isSet /\ ~Truthy(token) THEN "refresh_token not present in TokenSet" ELSE ""

\* if (token instanceof TokenSet) { if (!token.access_token) ... }
AccessTokenError(isSet, token) ==
  IF isSet /\ ~Truthy(token) THEN "access_token not present in TokenSet" ELSE ""

\* assert.ok(a || b, 'issuer must be configured with ... endpoint')
EndpointError(a, b, what) ==
  IF Truthy(Or(a, b)) THEN "" ELSE "issuer must be configured with " \o what \o " endpoint"

\* authenticatedPost(endpoint, { body }, success) up to the promise it returns:
\* this.grantAuth() and, for the _jwt methods, createSign() as far as they run
\* synchronously.  The result is the set of positions the operation can be in.
AuthenticatedPost(o, endpoint, caller) ==
  LET a == GrantAuth(OpClient)
      c == [o EXCEPT !.endpoint = endpoint, !.caller = caller, !.authCalls = @ + 1]
      j == [c EXCEPT !.calledMs = env.clock]
      alg == SigningAlg(cl.signing_alg, cl.supported, KeystoreAlgs(cl.keystore))
  IN CASE a.how = "thrown" -> { OpSettle(c, Thrown(a.err)) }
       [] a.how = "returned" -> { [c EXCEPT !.pc = "post", !.auth = a] }
       [] a.how = "promise" /\ cl.method = Str("client_secret_jwt") ->
            { [j EXCEPT !.pc = "secret"] }
       [] a.how = "promise" /\ ~cl.hasKeystore ->
            { OpSettle(j, Thrown("TypeError")) }
       [] OTHER ->
            { IF k = 0 THEN OpSettle(j, Thrown("no valid key found"))
              ELSE [j EXCEPT !.pc = "sign", !.alg = alg, !.key = k] :
              k \in KeystoreGet(cl.keystore, alg) }

\* new BaseClient(metadata, keystore)
Construct ==
  /\ cl.made = "no"
  /\ LET m == WithDefault(cl.given)
         e == ConstructorError(m, cl.supported)
     IN cl' = [cl EXCEPT !.method = m, !.err = e,
                         !.made = IF e = "" THEN "yes" ELSE "failed"]
  /\ UNCHANGED <<js, ts, rg, sc, vpc, dres, vres, cb, cbTok, cbLog, cbOut, dc, op, net, env>>

\* grant(body)
Grant ==
  /\ CanCall("grant")
  /\ \E caller \in {"grant_type=client_credentials", "grant_type=authorization_code&code=code1"} :
       op' \in AuthenticatedPost(NewCall("grant"), TokenEndpoint, caller)
  /\ env' = EnvAtCall /\ net' = <<>>
  /\ UNCHANGED <<js, ts, rg, sc, vpc, dres, vres, cb, cbTok, cbLog, cbOut, dc, cl>>

\* refresh(refreshToken): a TokenSet (isSet) with or without refresh_token, or a value
Refresh ==
  /\ CanCall("refresh")
  /\ \E isSet \in BOOLEAN, token \in {Undef, Str("rt1")} :
       /\ isSet \/ token # Undef
       /\ LET o == [NewCall("refresh") EXCEPT !.isSet = isSet, !.token = token]
          IN IF RefreshTokenError(isSet, token) # ""
             THEN op' = OpSettle(o, Rejected(RefreshTokenError(isSet, token), "none"))
             ELSE op' \in AuthenticatedPost(o, TokenEndpoint,
                            "grant_type=refresh_token&refresh_token=" \o JsString(token))
  /\ env' = EnvAtCall /\ net' = <<>>
  /\ UNCHANGED <<js, ts, rg, sc, vpc, dres, vres, cb, cbTok, cbLog, cbOut, dc, cl>>

\* revoke(token)
Revoke ==
  /\ CanCall("revoke")
  /\ LET o == [NewCall("revoke") EXCEPT !.token = Str("tok1")]
         e == EndpointError(cl.issuer.revocation_endpoint,
                            cl.issuer.token_revocation_endpoint, "revocation")
     IN IF e # "" THEN op' = OpSettle(o, Thrown(e))
        ELSE op' \in AuthenticatedPost(o,
                       Or(cl.issuer.revocation_endpoint, cl.issuer.token_revocation_endpoint).s,
                       "token=tok1")
  /\ env' = EnvAtCall /\ net' = <<>>
  /\ UNCHANGED <<js, ts, rg, sc, vpc, dres, vres, cb, cbTok, cbLog, cbOut, dc, cl>>

\* introspect(token)
Introspect ==
  /\ CanCall("introspect")
  /\ LET o == [NewCall("introspect") EXCEPT !.token = Str("tok1")]
         e == EndpointError(cl.issuer.introspection_endpoint,
                            cl.issuer.token_introspection_endpoint, "introspection")
     IN IF e # "" THEN op' = OpSettle(o, Thrown(e))
        ELSE op' \in AuthenticatedPost(o,
                       Or(cl.issuer.introspection_endpoint,
                          cl.issuer.token_introspection_endpoint).s,
                       "token=tok1")
  /\ env' = EnvAtCall /\ net' = <<>>
  /\ UNCHANGED <<js, ts, rg, sc, vpc, dres, vres, cb, cbTok, cbLog, cbOut, dc, cl>>

\* joseSecret().then(key => { if (!alg) alg = _.find(...); return jose.JWS.createSign(...) })
AuthSecret ==
  /\ op.pc = "secret"
  /\ cl' = [cl EXCEPT !.jose_secret = TRUE]
  /\ op' = [op EXCEPT !.pc = "sign", !.key = 0,
                      !.alg = SigningAlg(cl.signing_alg, cl.supported,
                                         KeyAlgorithms(cl.secretAlgs))]
  /\ UNCHANGED <<js, ts, rg, sc, vpc, dres, vres, cb, cbTok, cbLog, cbOut, dc, net, env>>

\* .then(sign => sign.update(JSON.stringify({...})).final().then(client_assertion => ...))
AuthSign ==
  /\ op.pc = "sign"
  /\ \E ok \in SignOutcomes(op.alg, IF op.key = 0 THEN cl.secretAlgs ELSE cl.keystore[op.key]) :
       IF ok
       THEN op' = [op EXCEPT !.pc = "post",
                     !.auth = AssertionAuth(
                       [AssertionPayload(OpClient, EpochSeconds(op.calledMs), Uuid(env.uuids))
                          EXCEPT !.alg = op.alg, !.key = op.key])]
       ELSE op' = OpSettle(op, Rejected("signing failed", "none"))
  /\ env' = [env EXCEPT !.uuids = @ + 1]
  /\ UNCHANGED <<js, ts, rg, sc, vpc, dres, vres, cb, cbTok, cbLog, cbOut, dc, cl, net>>

\* .then(auth => got.post(endpoint, this.issuer.httpOptions(_.merge(httpOptions, auth))))
AuthPost ==
  /\ op.pc = "post"
  /\ net' = Append(net, AuthenticatedRequest(op.endpoint, op.caller, op.auth))
  /\ op' = [op EXCEPT !.pc = "response"]
  /\ UNCHANGED <<js, ts, rg, sc, vpc, dres, vres, cb, cbTok, cbLog, cbOut, dc, cl, env>>

\* .then(success, gotErrorHandler): the request fails, the body is not JSON, or the
\* success callback of the operation returns
AuthResponse ==
  /\ op.pc = "response" /\ op.name # "userinfo"
  /\ \/ op' = OpSettle(op, Rejected("request failed", "none"))
     \/ op' = OpSettle(op, Rejected("SyntaxError", "none"))
     \/ /\ op.name = "grant"
        /\ op' = OpSettle([op EXCEPT !.result = "tokenset"], Resolved("none", FALSE))
     \/ /\ op.name \in {"revoke", "introspect"}
        /\ op' = OpSettle([op EXCEPT !.result = "json body"], Resolved("none", FALSE))
     \/ /\ op.name = "refresh"
        /\ \E hasId \in BOOLEAN :
             \E str \in (IF hasId
                         THEN ResponseStrings("id_token", Str("RS256"), cl.enc,
                                              <<"nonce", "exp", "alg">>)
                         ELSE {StringOf(BaseCall("id_token", Str("RS256"), cl.enc))}) :
               op' = [op EXCEPT !.pc = "decrypt",
                                !.tok = TokenSet(hasId, str, Str("at2"), Undef)]
  /\ UNCHANGED <<js, ts, rg, sc, vpc, dres, vres, cb, cbTok, cbLog, cbOut, dc, cl, net, env>>

\* .then(tokenset => this.decryptIdToken(tokenset, 'id_token')) of refresh and
\* .then(jwt => this.decryptIdToken(jwt, 'userinfo')) of userinfo
OpDecrypt ==
  /\ op.pc = "decrypt"
  /\ LET d == DecryptIdToken(OpClient, op.tok,
                             IF op.name = "userinfo" THEN "userinfo" ELSE "id_token")
     IN IF d.how \in {"returned", "resolved"}
        THEN op' = [op EXCEPT !.pc = "validate", !.tok = d.token, !.decrypted = d.attempted]
        ELSE op' = OpSettle(op, Rejected(d.err, "none"))
  /\ UNCHANGED <<js, ts, rg, sc, vpc, dres, vres, cb, cbTok, cbLog, cbOut, dc, cl, net, env>>

\* .then(tokenset => this.validateIdToken(tokenset, undefined, 'id_token'))
RefreshValidate ==
  /\ op.pc = "validate" /\ op.name = "refresh"
  /\ LET v == ValidateIdToken(OpClient, op.tok, Undef, "id_token", env.clock)
     IN IF v.how = "resolved"
        THEN op' = OpSettle([op EXCEPT !.checked = TRUE, !.validated = TRUE,
                                       !.result = "tokenset"], v)
        ELSE op' = OpSettle([op EXCEPT !.checked = TRUE], Rejected(v.err, v.key))
  /\ UNCHANGED <<js, ts, rg, sc, vpc, dres, vres, cb, cbTok, cbLog, cbOut, dc, cl, net, env>>

\* JSON.parse(text) succeeds: json tells that the body, or the plaintext of the body
\* when it is a JWE, is a JSON document
IsJsonText(str, json) == json /\ ~str.jwe

\* the bodies of a userinfo response
UserinfoBodies ==
  { [str |-> s, json |-> FALSE] :
      s \in ResponseStrings("userinfo", IF Truthy(cl.uiAlg) THEN cl.uiAlg ELSE Str("RS256"),
                            cl.enc, <<"jwe", "alg", "signedBy", "exp">>) }
  \cup { [str |-> JsonText(cl.enc, j), json |-> TRUE] : j \in BOOLEAN }

\* userinfo(accessToken, options) up to the promise it returns: the request is built
\* and got[verb] is called
Userinfo ==
  /\ CanCall("userinfo")
  /\ \E isSet \in BOOLEAN, token \in {Undef, Str("at1")},
        via \in {Undef, Str("query"), Str("body")},
        verb \in {Undef, Str("GET"), Str("post"), Str("put")} :
       /\ isSet \/ token # Undef
       /\ LET v == OptionOr(Str("header"), via)
              vb == ToLowerCase(JsString(OptionOr(Str("get"), verb)))
              o == [NewCall("userinfo") EXCEPT !.isSet = isSet, !.token = token,
                                               !.via = v, !.verb = vb,
                                               !.endpoint = UserinfoEndpoint]
          IN IF AccessTokenError(isSet, token) # ""
             THEN /\ op' = OpSettle(o, Rejected(AccessTokenError(isSet, token), "none"))
                  /\ net' = <<>>
             ELSE IF UserinfoOptionsError(v, vb) # ""
             THEN op' = OpSettle(o, Thrown(UserinfoOptionsError(v, vb))) /\ net' = <<>>
             ELSE /\ op' = [o EXCEPT !.pc = "response"]
                  /\ net' = <<UserinfoRequest(v, vb, token)>>
  /\ env' = EnvAtCall
  /\ UNCHANGED <<js, ts, rg, sc, vpc, dres, vres, cb, cbTok, cbLog, cbOut, dc, cl>>

\* .then(response => { if (JWT_CONTENT.exec(...)) ...; return JSON.parse(response.body) },
\* gotErrorHandler)
UserinfoResponse ==
  /\ op.pc = "response" /\ op.name = "userinfo"
  /\ \/ op' = OpSettle(op, Rejected("request failed", "none"))
     \/ \E jwtContent \in BOOLEAN : \E body \in UserinfoBodies :
          IF jwtContent
          THEN op' = [op EXCEPT !.pc = "decrypt", !.tok = BareString(body.str),
                                !.bodyJson = body.json]
          ELSE IF IsJsonText(body.str, body.json)
          THEN op' = OpSettle([op EXCEPT !.result = "json body"], Resolved("none", FALSE))
          ELSE op' = OpSettle(op, Rejected("SyntaxError", "none"))
  /\ UNCHANGED <<js, ts, rg, sc, vpc, dres, vres, cb, cbTok, cbLog, cbOut, dc, cl, net, env>>

\* .then(jwt => { if (!this.userinfo_signed_response_alg) return JSON.parse(jwt);
\*               return this.validateIdToken(jwt, null, 'userinfo') ... })
UserinfoParse ==
  /\ op.pc = "validate" /\ op.name = "userinfo"
  /\ IF UserinfoParsesDirectly(OpClient)
     THEN IF IsJsonText(op.tok.str, op.bodyJson)
          THEN op' = OpSettle([op EXCEPT !.result = "json text"], Resolved("none", FALSE))
          ELSE op' = OpSettle(op, Rejected("SyntaxError", "none"))
     ELSE LET v == ValidateIdToken(OpClient, op.tok, Null, "userinfo", env.clock)
          IN IF v.how = "resolved"
             THEN op' = [op EXCEPT !.pc = "decode", !.checked = TRUE, !.validated = TRUE,
                                   !.out = v]
             ELSE op' = OpSettle([op EXCEPT !.checked = TRUE], Rejected(v.err, v.key))
  /\ UNCHANGED <<js, ts, rg, sc, vpc, dres, vres, cb, cbTok, cbLog, cbOut, dc, cl, net, env>>

\* .then(valid => JSON.parse(base64url.decode(valid.split('.')[1])))
UserinfoDecode ==
  /\ op.pc = "decode"
  /\ op' = OpSettle([op EXCEPT !.result = "jwt payload"], op.out)
  /\ UNCHANGED <<js, ts, rg, sc, vpc, dres, vres, cb, cbTok, cbLog, cbOut, dc, cl, net, env>>

\* time passes
Tick ==
  /\ \E t \in ClockValues : t > env.clock /\ env' = [env EXCEPT !.clock = t]
  /\ UNCHANGED <<js, ts, rg, sc, vpc, dres, vres, cb, cbTok, cbLog, cbOut, dc, cl, op, net>>

InitOp ==
  /\ cl \in ClientConfigs
  /\ op = OpIdle /\ net = <<>> /\ env = EnvIdle /\ dc = DcIdle
  /\ js = JsIdle /\ ts = TsIdle /\ rg = RgIdle
  /\ sc = BaseCall("id_token", Str("RS256"), FALSE)
  /\ vpc = "idle" /\ dres = NoDecrypt /\ vres = NoResult
  /\ cb = CbIdle /\ cbTok = NoDecrypt.token /\ cbLog = <<>> /\ cbOut = NoResult

NextOp ==
  \/ Construct \/ Grant \/ Refresh \/ Revoke \/ Introspect \/ Userinfo
  \/ AuthSecret \/ AuthSign \/ AuthPost \/ AuthResponse
  \/ OpDecrypt \/ RefreshValidate \/ UserinfoResponse \/ UserinfoParse \/ UserinfoDecode
  \/ Tick

SpecOp == InitOp /\ [][NextOp]_vars

(***************************************************************************)
(* fetchDistributedClaims as steps: the call sends every request, each     *)
(* response is handled when it arrives, in any order, and the callback of  *)
(* Promise.all runs when every handler has returned.                       *)
(***************************************************************************)
\* the synchronous part: got.get for every distributed source
DcCall ==
  /\ dc.pc = "called"
  /\ dc' = [dc EXCEPT !.pc = "fetching",
                      !.reqs = { ClaimRequest(dc.u, s) : s \in DistributedSources(dc.u) },
                      !.pending = DistributedSources(dc.u)]
  /\ UNCHANGED <<js, ts, rg, sc, vpc, dres, vres, cb, cbTok, cbLog, cbOut, cl, op, net, env>>

\* .then(response => {...}, gotErrorHandler).catch(err => { err.src = sourceName; throw err })
\* for one source: the request fails, the body is not JSON, or the handler runs on the
\* claims the body carries; the first rejection settles Promise.all
DcResponse ==
  /\ dc.pc = "fetching"
  /\ \E s \in dc.pending :
       LET fail(u, e) ==
             [dc EXCEPT !.u = u, !.pending = @ \ {s}, !.failed = @ \cup {s},
                        !.order = Append(@, s),
                        !.out = IF dc.out.how = "pending"
                                THEN [how |-> "rejected", src |-> s, err |-> e] ELSE @]
       IN \/ dc' = fail(dc.u, "request failed")
          \/ dc' = fail(dc.u, "SyntaxError")
          \/ \E data \in SUBSET Claims :
               IF FirstLacking(dc.u, s, data) # 0
               THEN dc' = fail(AfterResponse(dc.u, s, data),
                               "expected claim " \o ClaimSeq[FirstLacking(dc.u, s, data)])
               ELSE dc' = [dc EXCEPT !.u = AfterResponse(dc.u, s, data),
                                     !.pending = @ \ {s}, !.order = Append(@, s)]
  /\ UNCHANGED <<js, ts, rg, sc, vpc, dres, vres, cb, cbTok, cbLog, cbOut, cl, op, net, env>>

\* .then(() => { ...; return userinfo }) of Promise.all
DcFinish ==
  /\ dc.pc = "fetching" /\ dc.pending = {} /\ dc.failed = {}
  /\ dc' = [dc EXCEPT !.pc = "settled", !.u = Cleanup(dc.u),
                      !.out = [how |-> "resolved", src |-> 0, err |-> ""]]
  /\ UNCHANGED <<js, ts, rg, sc, vpc, dres, vres, cb, cbTok, cbLog, cbOut, cl, op, net, env>>

InitDc ==
  /\ \E u \in Userinfos :
       /\ WellFormed(u)
       /\ dc = [DcIdle EXCEPT !.pc = "called", !.given = u, !.u = u]
  /\ cl = ClIdle /\ op = OpIdle /\ net = <<>> /\ env = EnvIdle
  /\ js = JsIdle /\ ts = TsIdle /\ rg = RgIdle
  /\ sc = BaseCall("id_token", Str("RS256"), FALSE)
  /\ vpc = "idle" /\ dres = NoDecrypt /\ vres = NoResult
  /\ cb = CbIdle /\ cbTok = NoDecrypt.token /\ cbLog = <<>> /\ cbOut = NoResult

NextDc == DcCall \/ DcResponse \/ DcFinish

SpecDc == InitDc /\ [][NextDc]_vars

(***************************************************************************)
(* joseSecret as steps: the call, and the then-callback of asKey.  Calls   *)
(* on one client are made in any order and any number of them can be       *)
(* waiting for asKey.                                                      *)
(***************************************************************************)
JsFrame == UNCHANGED <<ts, rg, sc, vpc, dres, vres, cb, cbTok, cbLog, cbOut, cl, op, net, env, dc>>

\* joseSecret(): the cached key, or jose.JWK.asKey(...)
JoseSecretCall(i) ==
  /\ js.calls[i].pc = "idle"
  /\ LET c == [js.calls[i] EXCEPT !.after = js.cache # NoKey]
     IN js' = [js EXCEPT !.calls[i] =
          IF CacheHit(js.cache) THEN [c EXCEPT !.pc = "resolved", !.out = js.cache]
          ELSE IF BufferThrows(js.secret) THEN [c EXCEPT !.pc = "thrown"]
          ELSE [c EXCEPT !.pc = "deriving", !.derived = TRUE]]
  /\ JsFrame

\* .then(key => { instance(this).jose_secret = key; return key; })
JoseSecretThen(i) ==
  /\ js.calls[i].pc = "deriving"
  /\ js' = [js EXCEPT !.cache = AsKey(js.secret),
                      !.calls[i] = [@ EXCEPT !.pc = "resolved", !.out = AsKey(js.secret)]]
  /\ JsFrame

InitJs ==
  /\ \E secret \in JsSecrets : js = [JsIdle EXCEPT !.secret = secret]
  /\ ts = TsIdle /\ rg = RgIdle
  /\ cl = ClIdle /\ op = OpIdle /\ net = <<>> /\ env = EnvIdle /\ dc = DcIdle
  /\ sc = BaseCall("id_token", Str("RS256"), FALSE)
  /\ vpc = "idle" /\ dres = NoDecrypt /\ vres = NoResult
  /\ cb = CbIdle /\ cbTok = NoDecrypt.token /\ cbLog = <<>> /\ cbOut = NoResult

NextJs == \E i \in JsCalls : JoseSecretCall(i) \/ JoseSecretThen(i)

SpecJs == InitJs /\ [][NextJs]_vars

(***************************************************************************)
(* A TokenSet as steps: its construction from a response, the reads of the *)
(* application, and the clock.                                             *)
(***************************************************************************)
TsFrame == UNCHANGED <<js, rg, sc, vpc, dres, vres, cb, cbTok, cbLog, cbOut, cl, op, net, env, dc>>

CanRead == ts.made /\ Len(ts.log) < MaxReads

Read(what) == [NoRead EXCEPT !.what = what, !.at = ts.clock]

\* new TokenSet(values)
TsConstruct ==
  /\ ~ts.made
  /\ \E values \in Responses :
       ts' = [ts EXCEPT !.made = TRUE, !.values = values, !.builtAt = ts.clock,
                        !.expires_at = ExpiresAt(values, ts.clock)]
  /\ TsFrame

\* tokenset.expired()
TsExpired ==
  /\ CanRead
  /\ ts' = [ts EXCEPT !.log = Append(@, [Read("expired") EXCEPT !.bool = Expired(ts, ts.clock)])]
  /\ TsFrame

\* tokenset.expires_in
TsExpiresIn ==
  /\ CanRead /\ ts.expires_at # Undef
  /\ ts' = [ts EXCEPT !.log = Append(@, [Read("expires_in") EXCEPT !.num = ExpiresIn(ts, ts.clock)])]
  /\ TsFrame

\* tokenset.claims
TsClaims ==
  /\ CanRead
  /\ IF ClaimsCached(ts)
     THEN ts' = [ts EXCEPT !.log = Append(@, [Read("claims") EXCEPT !.claims = ts.cache])]
     ELSE IF ClaimsError(ts) # ""
     THEN ts' = [ts EXCEPT !.log = Append(@, [Read("claims") EXCEPT !.err = ClaimsError(ts)])]
     ELSE ts' = [ts EXCEPT !.cache = DecodeClaims(ts), !.decodes = @ + 1,
                           !.log = Append(@, [Read("claims") EXCEPT !.claims = DecodeClaims(ts)])]
  /\ TsFrame

\* JSON.stringify(tokenset)
TsSerialize ==
  /\ CanRead
  /\ ts' = [ts EXCEPT !.log = Append(@, [Read("serialize") EXCEPT !.dump = Serialize(ts)])]
  /\ TsFrame

\* the clock advances by a second
TsTick ==
  /\ ts.clock < MaxTime
  /\ ts' = [ts EXCEPT !.clock = @ + 1]
  /\ TsFrame

InitTs ==
  /\ ts = TsIdle
  /\ js = JsIdle /\ rg = RgIdle
  /\ cl = ClIdle /\ op = OpIdle /\ net = <<>> /\ env = EnvIdle /\ dc = DcIdle
  /\ sc = BaseCall("id_token", Str("RS256"), FALSE)
  /\ vpc = "idle" /\ dres = NoDecrypt /\ vres = NoResult
  /\ cb = CbIdle /\ cbTok = NoDecrypt.token /\ cbLog = <<>> /\ cbOut = NoResult

NextTs == TsConstruct \/ TsExpired \/ TsExpiresIn \/ TsClaims \/ TsSerialize \/ TsTick

SpecTs == InitTs /\ [][NextTs]_vars

(***************************************************************************)
(* register as steps: the synchronous part, which throws or sends the      *)
(* request, and the handler of the response.                               *)
(***************************************************************************)
RgFrame == UNCHANGED <<js, ts, sc, vpc, dres, vres, cb, cbTok, cbLog, cbOut, cl, op, net, env, dc>>

\* Client.register(body, keystore)
Register ==
  /\ rg.pc = "idle"
  /\ LET e == RegisterError(rg.endpoint, rg.body, rg.keystore)
         body == RegisterBody(rg.body, rg.keystore)
     IN IF e # ""
        THEN rg' = [rg EXCEPT !.pc = "settled", !.out = Thrown(e)]
        ELSE rg' = [rg EXCEPT !.pc = "response", !.body = body,
                              !.req = RegistrationRequest(body)]
  /\ RgFrame

\* .then(response => new this(JSON.parse(response.body), keystore), gotErrorHandler)
RegisterResponse ==
  /\ rg.pc = "response"
  /\ \E response \in {"error", "not json", "metadata"},
        method \in {Undef, Str("client_secret_post"), Str("private_key_jwt")} :
       LET e == IF response = "error" THEN "OpenIdConnectError"
                ELSE IF response = "not json" THEN "SyntaxError"
                ELSE RegisteredClientError(rg.keystore, WithDefault(method), rg.supported)
       IN rg' = [rg EXCEPT !.pc = "settled",
                           !.out = IF e # "" THEN Rejected(e, "none") ELSE Resolved("none", FALSE)]
  /\ RgFrame

InitReg ==
  /\ \E endpoint \in BOOLEAN, supported \in {Undef, Arr(<<Str("RS256")>>)},
        body \in RegBodies, keystore \in RegKeystores :
       rg = [RgIdle EXCEPT !.endpoint = endpoint, !.supported = supported,
                           !.given = body, !.body = body, !.keystore = keystore]
  /\ js = JsIdle /\ ts = TsIdle
  /\ cl = ClIdle /\ op = OpIdle /\ net = <<>> /\ env = EnvIdle /\ dc = DcIdle
  /\ sc = BaseCall("id_token", Str("RS256"), FALSE)
  /\ vpc = "idle" /\ dres = NoDecrypt /\ vres = NoResult
  /\ cb = CbIdle /\ cbTok = NoDecrypt.token /\ cbLog = <<>> /\ cbOut = NoResult

NextReg == Register \/ RegisterResponse

SpecReg == InitReg /\ [][NextReg]_vars

(***************************************************************************)
(* Properties of validateIdToken and decryptIdToken (SpecV).               *)
(***************************************************************************)
Finished == vpc \in {"done", "validated"}
Accepted == Finished /\ vres.how = "resolved"
GivenHeader == Header(Current.str)
GivenPayload == Current.str.payload
Provided(x) == x \notin {Undef, Null}
\* the expected signed response algorithm and the encryption configured for the call's use
UseAlg == IF sc.use.s = "userinfo" THEN sc.uiAlg ELSE sc.idAlg
UseEncrypted == IF sc.use.s = "userinfo" THEN sc.uiEnc = True ELSE sc.idEnc = True
\* the least number of whole seconds that is not before the clock
ClockSeconds == CHOOSE n \in 0..(sc.nowMs.n + 1) : n * 1000 >= sc.nowMs.n /\ (n - 1) * 1000 < sc.nowMs.n
IsHmac(alg) == alg \in {Str("HS256"), Str("HS384"), Str("HS512")}

\* C1: validateIdToken resolves only if the header alg is 'none', and then no key was
\* looked up and no signature checked, or the signature verified under the client's
\* secret key (HS algorithms) or the key issuer.key(header) returned (the others)
C1_AcceptedMeansUnsignedOrVerified ==
  Accepted =>
    \/ /\ GivenHeader.alg = Str("none")
       /\ vres.key = "none" /\ ~vres.verified
    \/ /\ GivenHeader.alg # Str("none")
       /\ vres.verified
       /\ vres.key = (IF IsHmac(GivenHeader.alg) THEN "secret" ELSE "issuer")
       /\ Current.str.signedBy = vres.key
       /\ (vres.key = "issuer" => Current.str.keyFound)

C1_Witness == Accepted /\ vres.key = "secret" /\ vres.verified

C3_NonceChecked ==
  /\ Accepted /\ (Provided(GivenPayload.nonce) \/ Provided(sc.callerNonce))
       => GivenPayload.nonce = sc.callerNonce
  /\ Finished /\ vres.err = "nonce mismatch"
       => /\ Provided(GivenPayload.nonce) \/ Provided(sc.callerNonce)
          /\ GivenPayload.nonce # sc.callerNonce

C3_Witness == Accepted /\ GivenPayload.nonce = Str("n1") /\ sc.callerNonce = Str("n1")

\* C4: an accepted token has the client id in its audience (a scalar aud counting as a
\* one-element list), has an azp when its aud is a list of more than one element, and
\* has no azp other than the client id
C4_AudienceAndAzp ==
  Accepted =>
    /\ IF GivenPayload.aud.t = "array"
       THEN \E i \in 1..Len(GivenPayload.aud.a) : GivenPayload.aud.a[i] = Str(ClientId)
       ELSE GivenPayload.aud = Str(ClientId)
    /\ (GivenPayload.aud.t = "array" /\ Len(GivenPayload.aud.a) > 1 => GivenPayload.azp # Undef)
    /\ (GivenPayload.azp # Undef => GivenPayload.azp = Str(ClientId))

C4_Witness ==
  Accepted /\ GivenPayload.aud.t = "array" /\ Len(GivenPayload.aud.a) > 1
           /\ GivenPayload.azp = Str(ClientId)

\* C5: with now the ceiling of the clock in seconds, an accepted token has a numeric
\* iat <= now, a numeric nbf <= now when it has one, and a numeric exp > now; and the
\* three timing errors are reported only for iat > now, nbf > now and exp <= now
C5_Timing ==
  /\ Accepted =>
       /\ GivenPayload.iat.t = "number" /\ GivenPayload.iat.n <= ClockSeconds
       /\ (GivenPayload.nbf # Undef =>
             GivenPayload.nbf.t = "number" /\ GivenPayload.nbf.n <= ClockSeconds)
       /\ GivenPayload.exp.t = "number" /\ GivenPayload.exp.n > ClockSeconds
  /\ Finished /\ vres.err = "id_token issued in the future" => GivenPayload.iat.n > ClockSeconds
  /\ Finished /\ vres.err = "id_token not active yet" => GivenPayload.nbf.n > ClockSeconds
  /\ Finished /\ vres.err = "id_token expired" => GivenPayload.exp.n <= ClockSeconds

C5_Witness ==
  Accepted /\ sc.nowMs.n = 2001 /\ GivenPayload.iat.n = ClockSeconds

C7_MalformedNeverAccepted ==
  Accepted =>
    /\ Segments(Current.str) = 3
    /\ HeaderIsJson(Current.str) /\ PayloadIsJson(Current.str)

\* C8: decryptIdToken returns its input and decrypts nothing when no encrypted response
\* algorithm is configured for the use; when one is, it attempts a decryption only of a
\* token whose header alg and enc are the configured pair; and what it resolves with is
\* the same token with its id_token replaced by the decrypted payload
C8_Decrypt ==
  dres.how # "pending" =>
    /\ ~UseEncrypted => dres.how = "returned" /\ ~dres.attempted /\ dres.token = TokenOf(sc)
    /\ UseEncrypted =>
         /\ dres.how # "returned"
         /\ dres.attempted =>
              /\ TokenOf(sc).hasId
              /\ Header(StringOf(sc)).alg = ExpectedEncAlg(ClientOf(sc), sc.use.s)
              /\ Header(StringOf(sc)).enc = ExpectedEncEnc(ClientOf(sc), sc.use.s)
         /\ dres.how = "resolved" =>
              /\ dres.attempted
              /\ dres.token = [TokenOf(sc) EXCEPT !.str = Plaintext(StringOf(sc))]
         /\ dres.how # "resolved" => dres.token = TokenOf(sc)

C8_Witness == dres.how = "resolved" /\ UseEncrypted /\ sc.isSet = True

(***************************************************************************)
(* Properties of authorizationCallback (SpecCb).                           *)
(***************************************************************************)
CbSettled == cb.pc = "settled"
CbBoth == cb.hasIdToken /\ cb.code # Undef
\* a request was prepared or sent, or a token decrypted or validated
CbActed == cbLog # <<>>

\* C9: with an error parameter the call rejects with the authorization error carrying
\* it, whatever the state; without one it rejects with a state mismatch exactly when
\* checks.state is not the received state; in both cases nothing is sent or validated
C9_ErrorThenState ==
  /\ cb.error # Undef \/ cb.checkState # cb.state => ~CbActed
  /\ CbSettled /\ cb.error # Undef =>
       cbOut.how = "rejected" /\ cbOut.err = "OpenIdConnectError: " \o cb.error.s
  /\ CbSettled /\ cb.error = Undef /\ cb.checkState # cb.state =>
       cbOut.how = "rejected" /\ cbOut.err = "state mismatch"
  /\ CbSettled /\ cbOut.err = "state mismatch" => cb.error = Undef /\ cb.checkState # cb.state

C9_Witness ==
  CbSettled /\ cbOut.err = "state mismatch" /\ cb.checkState = Undef /\ cb.state = Str("s1")

\* C10: when the response has both id_token and code, the token request is prepared and
\* sent only after the direct id_token was decrypted and validated successfully, and the
\* call resolves with the TokenSet of the code exchange, decrypted and validated with the
\* same nonce
C10_CodeExchangeAfterDirectValidation ==
  CbBoth =>
    /\ \A i \in 1..Len(cbLog) :
         cbLog[i].ev \in {"grantAuth", "post"} =>
           \E j \in 1..(i - 1) :
             /\ cbLog[j] = Event("validate", "params", TRUE, cb.nonce)
             /\ \E k \in 1..(j - 1) : cbLog[k] = Event("decrypt", "params", TRUE, Undef)
    /\ CbSettled /\ cbOut.how # "rejected" =>
         /\ cbOut.how = "resolved"
         /\ cb.src = "response"
         /\ \E i \in 1..Len(cbLog) :
              /\ cbLog[i] = Event("post", "response", TRUE, Undef)
              /\ \E j \in (i + 1)..Len(cbLog) :
                   /\ cbLog[j] = Event("decrypt", "response", TRUE, Undef)
                   /\ cbLog[Len(cbLog)] = Event("validate", "response", TRUE, cb.nonce)
                   /\ j < Len(cbLog)

C10_Witness == CbSettled /\ CbBoth /\ cbOut.how = "resolved" /\ cb.nonce = Str("n1")

(***************************************************************************)
(* Properties of the client's operations (SpecOp).                         *)
(***************************************************************************)
OpSettled == op.pc = "settled"
Sent == { net[i] : i \in 1..Len(net) }
MethodIs(m) == cl.made = "yes" /\ cl.method = Str(m)
Minted == op.auth.client_assertion

\* C11: for a client whose token_endpoint_auth_method is 'none' grantAuth throws, and
\* grant, refresh, revoke and introspect end with that error, whenever they get as far
\* as grantAuth, without sending a request; the same holds for the code exchange of
\* authorizationCallback
C11_NoneNeverSends ==
  /\ MethodIs("none") =>
       /\ GrantAuth(OpClient).how = "thrown"
       /\ net = <<>>
       /\ op.name # "none" => OpSettled /\ op.out.how \in {"thrown", "rejected"}
       /\ op.authCalls > 0 =>
            op.out = Thrown("client not supposed to use grant authz") /\ op.auth = NoAuth
  /\ cb.method = Str("none") =>
       \A i \in 1..Len(cbLog) : cbLog[i].ev # "post" /\ (cbLog[i].ev = "grantAuth" => ~cbLog[i].ok)

C11_Witness ==
  /\ MethodIs("none") /\ op.name = "refresh" /\ op.authCalls = 1
  /\ op.out.err = "client not supposed to use grant authz"

\* C12: client_secret_basic, also as the default of a client without a method, yields
\* only the Authorization header 'Basic ' + base64(client_id:client_secret);
\* client_secret_post yields only the body fields client_id and client_secret; the
\* request grant sends is a POST to the token endpoint with this material and the
\* caller's body
C12_SecretInOnePlace ==
  /\ cl.made = "yes" /\ cl.given = Undef => cl.method = Str("client_secret_basic")
  /\ MethodIs("client_secret_basic") =>
       GrantAuth(OpClient) =
         [NoAuth EXCEPT !.place = "header",
                        !.Authorization =
                          Str("Basic " \o Base64(ClientId \o ":" \o ClientSecret))]
  /\ MethodIs("client_secret_post") =>
       GrantAuth(OpClient) =
         [NoAuth EXCEPT !.place = "body", !.client_id = Str(ClientId),
                        !.client_secret = Str(ClientSecret)]
  /\ (MethodIs("client_secret_basic") \/ MethodIs("client_secret_post")) /\ op.name = "grant" =>
       \A r \in Sent :
         r = AuthenticatedRequest(TokenEndpoint, op.caller, GrantAuth(OpClient))

C12_Witness ==
  /\ cl.given = Undef /\ op.name = "grant" /\ Len(net) = 1
  /\ net[1].Authorization = Str("Basic base64(client:s3cret)")
  /\ net[1].caller = "grant_type=client_credentials"
  /\ net[1].client_id = Undef

\* C13: the assertion a _jwt client mints in a call has iat = the second the call was
\* made in, exp = iat + 60, iss = sub = client_id, aud = the token endpoint whatever the
\* endpoint of the request, and a jti no earlier call used; it is returned only as the
\* body fields client_assertion and client_assertion_type, and a request carries the
\* assertion minted for it
C13_FreshAssertion ==
  /\ Minted.minted =>
       /\ EndsWithJwt(cl.method)
       /\ Minted.iat * 1000 <= op.calledMs /\ op.calledMs < (Minted.iat + 1) * 1000
       /\ Minted.exp = Minted.iat + 60
       /\ Minted.iss = Str(ClientId) /\ Minted.sub = Str(ClientId)
       /\ Minted.aud = Str(TokenEndpoint)
       /\ Minted.jti \notin env.used
       /\ op.auth = [NoAuth EXCEPT !.place = "body", !.client_assertion = Minted,
                                   !.client_assertion_type = Str(AssertionType)]
  /\ cl.made = "yes" /\ EndsWithJwt(cl.method) =>
       \A r \in Sent :
         /\ Minted.minted /\ r.client_assertion = Minted
         /\ r.client_assertion_type = Str(AssertionType)
         /\ r.Authorization = Undef /\ r.client_id = Undef /\ r.client_secret = Undef

C13_Witness ==
  /\ MethodIs("private_key_jwt") /\ op.name = "revoke" /\ Len(net) = 1
  /\ net[1].endpoint = RevocationEndpoint /\ net[1].client_assertion.aud = Str(TokenEndpoint)
  /\ env.used # {} /\ Minted.iat = 3

\* the algorithms the signing key of the client supports: those of the key derived
\* from the secret, or those of any key of the keystore
SignerAlgs ==
  IF cl.method = Str("client_secret_jwt") THEN KeyAlgorithms(cl.secretAlgs)
  ELSE KeystoreAlgs(cl.keystore)

\* no key of the keystore supports the algorithm that is configured or, without one, an
\* algorithm the issuer supports
NoMatchingKey ==
  IF Truthy(cl.signing_alg) THEN cl.signing_alg \notin KeystoreAlgs(cl.keystore)
  ELSE \A i \in 1..Len(cl.supported.a) : cl.supported.a[i] \notin KeystoreAlgs(cl.keystore)

\* C14: the algorithm of an assertion is the configured token_endpoint_auth_signing_alg
\* or, without one, the first entry of the issuer's supported list that the signing key
\* supports; a private_key_jwt client without a key for a compatible algorithm fails
\* in grantAuth with 'no valid key found' and sends nothing
C14_SigningAlgAndNoValidKey ==
  /\ Minted.minted /\ Truthy(cl.signing_alg) => Minted.alg = cl.signing_alg
  /\ Minted.minted /\ ~Truthy(cl.signing_alg) =>
       \/ \E i \in 1..Len(cl.supported.a) :
            /\ Minted.alg = cl.supported.a[i] /\ Minted.alg \in SignerAlgs
            /\ \A j \in 1..(i - 1) : cl.supported.a[j] \notin SignerAlgs
       \/ /\ Minted.alg = Undef
          /\ \A i \in 1..Len(cl.supported.a) : cl.supported.a[i] \notin SignerAlgs
  /\ MethodIs("private_key_jwt") /\ op.authCalls > 0 /\ NoMatchingKey =>
       OpSettled /\ op.out = Thrown("no valid key found") /\ net = <<>>

\* C15: a client whose method ends in '_jwt' is not constructed when the issuer has no
\* token_endpoint_auth_signing_alg_values_supported: the constructor fails, and no
\* operation is ever called on such a client
C15_JwtNeedsSupportedAlgs ==
  /\ EndsWithJwt(WithDefault(cl.given)) /\ cl.supported = Undef =>
       cl.made # "yes" /\ op = OpIdle /\ net = <<>>
  /\ cl.made = "failed" =>
       /\ EndsWithJwt(WithDefault(cl.given)) /\ ~Truthy(cl.supported)
       /\ cl.err = "token_endpoint_auth_signing_alg_values_supported must be provided on the issuer"
  /\ op.authCalls > 0 /\ EndsWithJwt(cl.method) => Truthy(cl.supported)

C15_Witness == cl.made = "failed" /\ cl.given = Str("private_key_jwt") /\ cl.supported = Undef

\* the token refresh validated, without its nonce claim
WithoutNonce(token) == [token EXCEPT !.str.payload.nonce = Undef]

\* C16: refresh accepts the id_token of the response whether or not it has a nonce
\* claim: when validateIdToken is reached and the token passes every other check, the
\* call resolves
C16_RefreshIgnoresNonce ==
  op.name = "refresh" /\ OpSettled /\ op.checked
  /\ ValidateIdToken(OpClient, WithoutNonce(op.tok), Undef, "id_token", env.clock).how = "resolved"
    => op.out.how = "resolved"

\* C17: refresh of a TokenSet without refresh_token, userinfo of a TokenSet without
\* access_token, revoke without a revocation endpoint and introspect without an
\* introspection endpoint fail at once: no request is sent, grantAuth is not called and
\* no assertion is minted
C17_PreconditionsFirst ==
  LET unmet ==
        \/ op.name \in {"refresh", "userinfo"} /\ op.isSet /\ ~Truthy(op.token)
        \/ /\ op.name = "revoke"
           /\ cl.issuer.revocation_endpoint = Undef
           /\ cl.issuer.token_revocation_endpoint = Undef
        \/ /\ op.name = "introspect"
           /\ cl.issuer.introspection_endpoint = Undef
           /\ cl.issuer.token_introspection_endpoint = Undef
  IN unmet =>
       /\ OpSettled /\ op.out.how \in {"thrown", "rejected"}
       /\ net = <<>> /\ op.authCalls = 0 /\ op.auth = NoAuth
       /\ op.out.err \in { "refresh_token not present in TokenSet",
                           "access_token not present in TokenSet",
                           "issuer must be configured with revocation endpoint",
                           "issuer must be configured with introspection endpoint" }

C17_Witness ==
  /\ op.name = "refresh" /\ op.isSet /\ op.token = Undef
  /\ op.out = Rejected("refresh_token not present in TokenSet", "none")
  /\ net = <<>>

\* C18: a userinfo request carries the access token in exactly one place: the query
\* for via 'query', the body for via 'body', else the Authorization header as Bearer;
\* via 'query' with a verb other than get and via 'body' with a verb other than post
\* throw and no request is sent
C18_TokenInOnePlace ==
  op.name = "userinfo" =>
    /\ \A r \in Sent :
         /\ r.verb = op.verb /\ r.endpoint = UserinfoEndpoint
         /\ r = [NoRequest EXCEPT
                   !.verb = op.verb, !.endpoint = UserinfoEndpoint,
                   !.query_access_token = IF op.via = Str("query") THEN op.token ELSE Undef,
                   !.body_access_token = IF op.via = Str("body") THEN op.token ELSE Undef,
                   !.Authorization = IF op.via \in {Str("query"), Str("body")} THEN Undef
                                     ELSE Str("Bearer " \o op.token.s)]
    /\ Len(net) <= 1
    /\ \/ op.via = Str("query") /\ op.verb # "get"
       \/ op.via = Str("body") /\ op.verb # "post"
       => /\ net = <<>> /\ OpSettled /\ op.out.how \in {"thrown", "rejected"}
          /\ ~(op.isSet /\ op.token = Undef) =>
               /\ op.out.how = "thrown"
               /\ op.out.err \in { "providers should only parse query strings for GET requests",
                                   "can only send body on POST" }

C18_Witness ==
  /\ op.name = "userinfo" /\ op.via = Str("body") /\ op.verb = "post" /\ Len(net) = 1
  /\ net[1].body_access_token = Str("at1") /\ net[1].Authorization = Undef

\* C19: a JWT userinfo response is decrypted exactly when userinfo encryption is
\* configured; without userinfo_signed_response_alg the text is then parsed as it is;
\* with one, claims come out only after validateIdToken succeeded for the use
\* userinfo, on a token with the expected alg whose signature was verified (alg none
\* has none), and a token that fails the validation yields no claims
C19_UserinfoJwt ==
  op.name = "userinfo" =>
    /\ op.decrypted => cl.enc
    /\ op.pc \in {"validate", "decode"} \/ op.checked => (op.decrypted <=> cl.enc)
    /\ op.result = "json text" => cl.uiAlg = Undef /\ ~op.checked /\ (op.decrypted <=> cl.enc)
    /\ op.result = "jwt payload" =>
         /\ cl.uiAlg # Undef /\ op.validated
         /\ Header(op.tok.str).alg = cl.uiAlg
         /\ Header(op.tok.str).alg # Str("none") => op.out.verified
         /\ op.out.how = "resolved"
    /\ op.checked /\ OpSettled
       /\ ValidateIdToken(OpClient, op.tok, Null, "userinfo", env.clock).how # "resolved"
         => op.out.how = "rejected" /\ op.result = ""

C19_Witness ==
  /\ op.name = "userinfo" /\ OpSettled /\ op.result = "jwt payload"
  /\ op.decrypted /\ op.out.verified /\ cl.uiAlg = Str("RS256")

(***************************************************************************)
(* Properties of fetchDistributedClaims (SpecDc).                          *)
(***************************************************************************)
\* the sources of the object as it was given that have an endpoint
GivenDistributed == DistributedSources(dc.given)

\* C20: a request goes to every source with an endpoint, with a bearer token exactly
\* when the source has one; when the call resolves, in whatever order the responses
\* came, every claim that pointed at such a source has the value of that source's
\* response and no _claim_names entry, no source with an endpoint is left, entries of
\* other sources are as they were, and _claim_names and _claim_sources are gone when
\* empty; when a source fails the call rejects with the error tagged with the first
\* failing source
C20_DistributedClaims ==
  /\ dc.pc \in {"fetching", "settled"} =>
       dc.reqs = { [src |-> s, bearer |-> dc.given.kinds[s] = "endpoint+token"] :
                   s \in GivenDistributed }
  /\ dc.out.how = "resolved" =>
       /\ dc.failed = {}
       /\ \A c \in Claims :
            IF dc.given.names[c] \in GivenDistributed
            THEN dc.u.vals[c] = dc.given.names[c] /\ dc.u.names[c] = 0
            ELSE dc.u.vals[c] = 0 /\ dc.u.names[c] = dc.given.names[c]
       /\ \A s \in Sources :
            IF s \in GivenDistributed THEN dc.u.kinds[s] = "absent"
            ELSE dc.u.kinds[s] = dc.given.kinds[s]
       /\ dc.u.hasNames <=> \E c \in Claims : dc.u.names[c] # 0
       /\ dc.u.hasSources <=> \E s \in Sources : dc.u.kinds[s] # "absent"
  /\ dc.failed # {} =>
       /\ dc.out.how = "rejected"
       /\ dc.out.src = dc.order[CHOOSE i \in 1..Len(dc.order) :
                                  /\ dc.order[i] \in dc.failed
                                  /\ \A j \in 1..(i - 1) : dc.order[j] \notin dc.failed]
  /\ dc.out.how = "rejected" => dc.out.src \in dc.failed

C20_Witness ==
  /\ dc.out.how = "resolved" /\ dc.order = <<2, 1>>
  /\ dc.given.kinds[1] = "endpoint+token" /\ dc.given.kinds[2] = "endpoint"
  /\ dc.given.names["address"] = 1 /\ dc.given.names["credit_score"] = 2
  /\ dc.u.vals["address"] = 1 /\ dc.u.vals["credit_score"] = 2
  /\ ~dc.u.hasNames /\ ~dc.u.hasSources

(***************************************************************************)
(* Properties of joseSecret (SpecJs).                                      *)
(***************************************************************************)
JsCache == js.cache

TsReads(what) == { i \in 1..Len(ts.log) : ts.log[i].what = what }
FromExpiresIn == ts.made /\ ts.values.expires_in # Undef
GivenExpiresIn == ts.values.expires_in.n

\* C23: a TokenSet constructed from expires_in = n at time t has expires_at = t + n;
\* expired() called at construction time is (n <= 0) and called at time u is
\* (u >= t + n), so once it answered true it answers true ever after; expires_in read
\* at time u is max(expires_at - u, 0).
C23_Expiry ==
  FromExpiresIn =>
    /\ ts.expires_at = Num(ts.builtAt + GivenExpiresIn)
    /\ \A i \in TsReads("expired") :
         /\ ts.log[i].at = ts.builtAt => (ts.log[i].bool <=> GivenExpiresIn <= 0)
         /\ ts.log[i].bool <=> ts.log[i].at >= ts.builtAt + GivenExpiresIn
         /\ \A j \in TsReads("expired") : i < j /\ ts.log[i].bool => ts.log[j].bool
    /\ \A i \in TsReads("expires_in") :
         LET left == ts.builtAt + GivenExpiresIn - ts.log[i].at
         IN ts.log[i].num = IF left > 0 THEN left ELSE 0

C23_Witness ==
  /\ FromExpiresIn /\ GivenExpiresIn > 0
  /\ \E i, j \in TsReads("expired") : i < j /\ ~ts.log[i].bool /\ ts.log[j].bool
  /\ \E i \in TsReads("expires_in") : ts.log[i].num = 0

\* C24: a claims access to a TokenSet without id_token fails with 'id_token not present
\* in TokenSet'; with an id_token every access returns the decoded payload, the token
\* is decoded at most once however the accesses and serializations are ordered, and
\* every serialization is the fields of the response, without the decoded claims.
C24_ClaimsMemoized ==
  ts.made =>
    /\ ts.decodes <= 1
    /\ \A i \in TsReads("claims") :
         IF ts.values.id_token = Undef
         THEN ts.log[i].err = "id_token not present in TokenSet" /\ ts.log[i].claims = ""
         ELSE /\ ts.log[i].err = ""
              /\ Str(Base64Url(ts.log[i].claims)) = ts.values.id_token
              /\ \A j \in TsReads("claims") : ts.log[j].claims = ts.log[i].claims
    /\ \A i \in TsReads("serialize") :
         ts.log[i].dump = ts.values /\ ts.log[i].dump.claims = Undef

C24_Witness ==
  /\ ts.made /\ ts.values.id_token # Undef /\ ts.decodes = 1
  /\ \E i, j, k \in 1..Len(ts.log) :
       /\ i < j /\ j < k
       /\ ts.log[i].what = "claims" /\ ts.log[j].what = "serialize" /\ ts.log[k].what = "claims"

(***************************************************************************)
(* Properties of register (SpecReg).                                       *)
(***************************************************************************)
RegActed == rg.pc # "idle"
GivenJwks == rg.given.jwks # NoField \/ rg.given.jwks_uri # NoField
PrivateEcOrRsa(key) == key.private /\ key.kty \in {"EC", "RSA"}
AllPrivateEcOrRsa == \A i \in 1..Len(rg.keystore.keys) : PrivateEcOrRsa(rg.keystore.keys[i])
RegThrew(e) == rg.pc = "settled" /\ rg.out = Thrown(e) /\ ~rg.req.sent

\* C25: register throws before any request when the issuer has no registration endpoint;
\* with an endpoint, a body that has jwks or jwks_uri is sent as it was given whatever
\* the keystore is; a body with neither and no keystore is sent as given; a body with
\* neither and a keystore is sent with jwks = the keystore's JSON exactly when the
\* keystore is a key store holding only private EC or RSA keys, and otherwise register
\* throws and sends nothing.
C25_RegisterKeystore ==
  RegActed =>
    IF ~rg.endpoint THEN RegThrew("issuer does not support dynamic registration")
    ELSE IF GivenJwks \/ rg.keystore.kind = "undefined"
    THEN rg.req.sent /\ rg.req.body = [json |-> rg.given] /\ rg.out.how # "thrown"
    ELSE IF rg.keystore.kind # "keystore"
    THEN RegThrew("keystore must be an instance of jose.JWK.KeyStore")
    ELSE IF ~AllPrivateEcOrRsa
    THEN RegThrew("keystore must only contain private EC or RSA keys")
    ELSE /\ rg.req.sent /\ rg.out.how # "thrown"
         /\ rg.req.body = [json |-> [rg.given EXCEPT !.jwks =
                             [t |-> "object", s |-> "", keys |-> rg.keystore.keys]]]

C25_Witness ==
  /\ rg.pc = "settled" /\ rg.out.how = "resolved" /\ ~GivenJwks
  /\ Len(rg.keystore.keys) = 2 /\ rg.req.body.json.jwks.keys = rg.keystore.keys

(***************************************************************************)
(* Further properties of validateIdToken (SpecV).                          *)
(***************************************************************************)
\* the checks in the order the description gives, each with the error it raises
\* on the token of the call ("" when it passes)
DescribedChecks ==
  LET c == ClientOf(sc)
      p == GivenPayload
      now == CeilSeconds(sc.nowMs.n)
  IN << AlgError(c, sc.use.s, GivenHeader), PresenceError(p), IssError(p), IatError(p, now),
        NbfError(p, now), NonceError(p, sc.callerNonce), ExpError(p, now), AzpError(c, p),
        AudError(c, p), AtHashError(Current, p, GivenHeader.alg),
        CHashError(Current, p, GivenHeader.alg) >>
FailingChecks == { i \in 1..Len(DescribedChecks) : DescribedChecks[i] # "" }
Parsed == ParseError(Current.str) = "" /\ ~(Current.isSet /\ ~Current.hasId)

\* C26: validateIdToken reports the first failing check in the order header alg,
\* presence of iss, sub, aud, exp, iat (naming the first one missing), iss value, iat,
\* nbf, nonce, exp, azp, aud, at_hash, c_hash; a token that fails a check causes no
\* key lookup, and a token that passes them all is verified with the key for its alg.
C26_CheckOrder ==
  Finished /\ Parsed =>
    /\ \A i \in FailingChecks :
         (\A j \in FailingChecks : i <= j) => vres = Thrown(DescribedChecks[i])
    /\ \A k \in 1..Len(RequiredClaims) :
         vres.err = "missing required JWT property " \o RequiredClaims[k] =>
           /\ GivenPayload[RequiredClaims[k]] = Undef
           /\ \A j \in 1..(k - 1) : GivenPayload[RequiredClaims[j]] # Undef
    /\ FailingChecks # {} => vres.how = "thrown" /\ vres.key = "none"
    /\ vres.key # "none" => FailingChecks = {} /\ vres.key = KeyFor(GivenHeader.alg)

C26_Witness ==
  /\ Finished /\ Parsed /\ Cardinality(FailingChecks) = 2
  /\ vres = Thrown("unexpected iss value") /\ ExpError(GivenPayload, CeilSeconds(sc.nowMs.n)) # ""

(***************************************************************************)
(* Further properties of the operations (SpecOp, SpecCb, SpecDc).          *)
(***************************************************************************)
\* the token response of a refresh has arrived
RefreshResponded == op.name = "refresh" /\ op.tok.access_token = Str("at2")
CbResponded == cb.src = "response"
LastEvent == cbLog[Len(cbLog)]

\* C22: every failure of an operation is a rejection of the promise it returns: no
\* operation, and no authorizationCallback, ends by throwing to its caller.
C22_FailuresAreRejections ==
  /\ OpSettled => op.out.how \in {"resolved", "rejected"}
  /\ CbSettled => cbOut.how # "thrown"

\* C27: when the token response carries no id_token, the code exchange of
\* authorizationCallback and refresh reject with 'id_token not present in TokenSet',
\* with and without ID Token encryption configured; when they resolve, the TokenSet of
\* the response has an id_token and validateIdToken accepted it.
C27_IdTokenRequired ==
  /\ CbSettled /\ CbResponded /\ ~cbTok.hasId =>
       cbOut = Rejected("id_token not present in TokenSet", "none")
  /\ CbSettled /\ CbResponded /\ cbOut.how # "rejected" =>
       /\ cbOut.how = "resolved" /\ cbTok.hasId
       /\ LastEvent = Event("validate", "response", TRUE, cb.nonce)
  /\ OpSettled /\ RefreshResponded /\ ~op.tok.hasId =>
       op.out = Rejected("id_token not present in TokenSet", "none")
  /\ OpSettled /\ RefreshResponded /\ op.out.how # "rejected" =>
       op.out.how = "resolved" /\ op.tok.hasId /\ op.validated

C27_Witness ==
  /\ CbSettled /\ CbResponded /\ ~cbTok.hasId /\ cb.enc
  /\ cbOut.err = "id_token not present in TokenSet"

\* C28: every authorizationCallback call ends with a promise, rejected or resolved
\* with a TokenSet that validateIdToken accepted last, also when the parameters have
\* neither id_token nor code.
C28_CallbackAlwaysValidates ==
  CbSettled =>
    /\ cbOut.how \in {"rejected", "resolved"}
    /\ cbOut.how = "resolved" =>
         /\ cbLog # <<>>
         /\ LastEvent.ev = "validate" /\ LastEvent.ok

\* C29: with userinfo_signed_response_alg configured, userinfo resolves only with
\* claims of a response that validateIdToken accepted, whatever the content type.
C29_UserinfoAlwaysVerified ==
  op.name = "userinfo" /\ OpSettled /\ op.out.how = "resolved" /\ Truthy(cl.uiAlg) =>
    op.validated /\ op.result = "jwt payload"

\* C30: when fetchDistributedClaims rejects, the userinfo object is as it was passed
\* in: no claim copied, no _claim_names or _claim_sources entry removed.
C30_RejectionLeavesUserinfo ==
  dc.out.how = "rejected" => dc.u = dc.given

====
